---- MODULE Spec2Model ----
(***************************************************************************)
(* Mobile Secrets Vault: the vault facade (vault.py) over the AES-GCM      *)
(* crypto engine (crypto.py), the version manager (versioning.py), the     *)
(* YAML storage backend (storage.py) and the audit logger (audit.py).      *)
(*                                                                         *)
(* Cryptography is modelled symbolically: a ciphertext is the term         *)
(* (key, nonce, data, tag) and opens only under the key and nonce that     *)
(* made it.  The operating system's random generator is modelled as a      *)
(* stream of values that never repeats (rng is the number of draws so far; *)
(* a draw yields rng and advances it).                                     *)
(***************************************************************************)
EXTENDS Integers, Sequences, FiniteSets, TLC

\* ------------------------------------------------------------------ bounds
\* Longest audit log explored: every public Vault call appends one entry, so
\* this bounds the number of public calls of a behaviour.
MaxLog == 3
\* Last reading of the wall clock explored.
MaxClock == 2

\* ------------------------------------------------------- program constants
KEY_SIZE == 32

\* ------------------------------------------------------------ input values
\* Optional[T]: None is the empty tuple, a value x is <<x>>.
None == <<>>
Some(x) == <<x>>

\* Master keys: an identity and a length in bytes.  K1 and K2 are 32-byte keys
\* supplied by the caller, KShort a 16-byte one; generated keys take their
\* identity from the random stream.
K1 == [id |-> 101, len |-> 32]
K2 == [id |-> 102, len |-> 32]
KShort == [id |-> 103, len |-> 16]

SecretNames == {"k1", "k2"}
\* A metadata dict is a set of <<name, value>> pairs.
EmptyDict == {}

\* Outcome of a call: a returned value, or a raised exception (type, str(e)).
Ok(v) == [ok |-> TRUE, value |-> v]
Err(t, m) == [ok |-> FALSE, type |-> t, msg |-> m]

\* ------------------------------------------------------------------ crypto
\* base64.b64encode / b64decode: text wrapping the encoded bytes.
b64encode(bytes) == [b64 |-> bytes]
b64valid(text) == DOMAIN text = {"b64"}
b64decode(text) == text.b64

\* str.encode("utf-8") / bytes.decode("utf-8")
utf8encode(str) == [utf8 |-> str]
utf8decode(bytes) == bytes.utf8

\* AESGCM(key).encrypt(nonce, data, None): ciphertext with the tag appended.
AESGCM_encrypt(key, nonce, data) ==
    [aead_key |-> key, aead_nonce |-> nonce, data |-> data, tag_ok |-> TRUE]

\* AESGCM(key).decrypt(nonce, data, None): the tag verifies only under the key
\* and nonce of the encryption and on an unmodified ciphertext.
AESGCM_decrypt(key, nonce, ct) ==
    IF ct.aead_key = key /\ ct.aead_nonce = nonce /\ ct.tag_ok
    THEN Ok(ct.data)
    ELSE Err("InvalidTag", "")

\* CryptoEngine.generate_key: 32 fresh bytes from the random stream.
generate_key(draw) == [id |-> draw, len |-> KEY_SIZE]

\* CryptoEngine.encrypt; nonce is the os.urandom draw.
encrypt_other_nonce_returned(plaintext, key, nonce) ==
    IF key.len # KEY_SIZE
    THEN Err("ValueError", "Key must be 32 bytes")
    ELSE Ok([ciphertext |-> b64encode(AESGCM_encrypt(key, nonce, utf8encode(plaintext))),
             nonce |-> b64encode(nonce + 1)])

encrypt(plaintext, key, nonce) ==
    IF key.len # KEY_SIZE
    THEN Err("ValueError", "Key must be 32 bytes")
    ELSE Ok([ciphertext |-> b64encode(AESGCM_encrypt(key, nonce, utf8encode(plaintext))),
             nonce |-> b64encode(nonce)])

\* CryptoEngine.decrypt
decrypt_fields_before_key(encrypted_data, key) ==
    IF ~({"ciphertext", "nonce"} \subseteq DOMAIN encrypted_data)
    THEN Err("ValueError", "Encrypted data must contain 'ciphertext' and 'nonce'")
    ELSE IF key.len # KEY_SIZE
    THEN Err("ValueError", "Key must be 32 bytes")
    ELSE IF ~(b64valid(encrypted_data.ciphertext) /\ b64valid(encrypted_data.nonce))
    THEN Err("ValueError", "Failed to decode encrypted data")
    ELSE LET ciphertext == b64decode(encrypted_data.ciphertext)
             nonce == b64decode(encrypted_data.nonce)
             plaintext_bytes == AESGCM_decrypt(key, nonce, ciphertext)
         IN  IF plaintext_bytes.ok
             THEN Ok(utf8decode(plaintext_bytes.value))
             ELSE plaintext_bytes

decrypt(encrypted_data, key) ==
    IF key.len # KEY_SIZE
    THEN Err("ValueError", "Key must be 32 bytes")
    ELSE IF ~({"ciphertext", "nonce"} \subseteq DOMAIN encrypted_data)
    THEN Err("ValueError", "Encrypted data must contain 'ciphertext' and 'nonce'")
    ELSE IF ~(b64valid(encrypted_data.ciphertext) /\ b64valid(encrypted_data.nonce))
    THEN Err("ValueError", "Failed to decode encrypted data")
    ELSE LET ciphertext == b64decode(encrypted_data.ciphertext)
             nonce == b64decode(encrypted_data.nonce)
             plaintext_bytes == AESGCM_decrypt(key, nonce, ciphertext)
         IN  IF plaintext_bytes.ok
             THEN Ok(utf8decode(plaintext_bytes.value))
             ELSE plaintext_bytes

\* --------------------------------------------------------- version manager
\* VersionManager._secrets is an insertion-ordered dict: a sequence of
\* entries [key, versions, current_version], at most one per key.
HasKey(secs, key) == \E i \in 1..Len(secs) : secs[i].key = key
IndexOf(secs, key) == CHOOSE i \in 1..Len(secs) : secs[i].key = key
RemoveAt(seq, i) == SubSeq(seq, 1, i - 1) \o SubSeq(seq, i + 1, Len(seq))

\* SecretVersion.__init__: timestamp and metadata default when falsy.
SecretVersion(version, encrypted_value, timestamp, metadata, utcnow) ==
    [version |-> version,
     encrypted_value |-> encrypted_value,
     timestamp |-> IF timestamp = None THEN utcnow ELSE timestamp[1],
     metadata |-> IF metadata = None THEN EmptyDict ELSE metadata[1]]

\* VersionManager.add_version: [secrets |-> the store after, ret |-> version].
add_version_by_count(secs, key, encrypted_value, metadata, utcnow) ==
    LET s1 == IF ~HasKey(secs, key)
              THEN Append(secs, [key |-> key, versions |-> <<>>, current_version |-> 0])
              ELSE secs
        i == IndexOf(s1, key)
        next_version == Len(s1[i].versions) + 1
        version == SecretVersion(next_version, encrypted_value, None, metadata, utcnow)
    IN  [secrets |-> [s1 EXCEPT ![i].versions = Append(@, version),
                                ![i].current_version = next_version],
         ret |-> next_version]

add_version_prepend(secs, key, encrypted_value, metadata, utcnow) ==
    LET s1 == IF ~HasKey(secs, key)
              THEN Append(secs, [key |-> key, versions |-> <<>>, current_version |-> 0])
              ELSE secs
        i == IndexOf(s1, key)
        next_version == s1[i].current_version + 1
        version == SecretVersion(next_version, encrypted_value, None, metadata, utcnow)
    IN  [secrets |-> [s1 EXCEPT ![i].versions = <<version>> \o @,
                                ![i].current_version = next_version],
         ret |-> next_version]

add_version_replacing(secs, key, encrypted_value, metadata, utcnow) ==
    LET s1 == IF ~HasKey(secs, key)
              THEN Append(secs, [key |-> key, versions |-> <<>>, current_version |-> 0])
              ELSE secs
        i == IndexOf(s1, key)
        next_version == s1[i].current_version + 1
        version == SecretVersion(next_version, encrypted_value, None, metadata, utcnow)
    IN  [secrets |-> [s1 EXCEPT ![i].versions = <<version>>,
                                ![i].current_version = next_version],
         ret |-> next_version]

add_version(secs, key, encrypted_value, metadata, utcnow) ==
    LET s1 == IF ~HasKey(secs, key)
              THEN Append(secs, [key |-> key, versions |-> <<>>, current_version |-> 0])
              ELSE secs
        i == IndexOf(s1, key)
        next_version == s1[i].current_version + 1
        version == SecretVersion(next_version, encrypted_value, None, metadata, utcnow)
    IN  [secrets |-> [s1 EXCEPT ![i].versions = Append(@, version),
                                ![i].current_version = next_version],
         ret |-> next_version]

\* VersionManager.get_version: Some(version object) or None.
get_version_first_as_latest(secs, key, version) ==
    IF ~HasKey(secs, key) THEN None
    ELSE LET versions == secs[IndexOf(secs, key)].versions
         IN  IF versions = <<>> THEN None
             ELSE IF version = None THEN Some(versions[1])
             ELSE IF \E j \in 1..Len(versions) : versions[j].version = version[1]
             THEN LET j == CHOOSE j \in 1..Len(versions) :
                              /\ versions[j].version = version[1]
                              /\ \A h \in 1..(j - 1) : versions[h].version # version[1]
                  IN  Some(versions[j])
             ELSE None

get_version_or_latest(secs, key, version) ==
    IF ~HasKey(secs, key) THEN None
    ELSE LET versions == secs[IndexOf(secs, key)].versions
         IN  IF versions = <<>> THEN None
             ELSE IF version = None THEN Some(versions[Len(versions)])
             ELSE IF \E j \in 1..Len(versions) : versions[j].version = version[1]
             THEN LET j == CHOOSE j \in 1..Len(versions) :
                              /\ versions[j].version = version[1]
                              /\ \A h \in 1..(j - 1) : versions[h].version # version[1]
                  IN  Some(versions[j])
             ELSE Some(versions[Len(versions)])

get_version(secs, key, version) ==
    IF ~HasKey(secs, key) THEN None
    ELSE LET versions == secs[IndexOf(secs, key)].versions
         IN  IF versions = <<>> THEN None
             ELSE IF version = None THEN Some(versions[Len(versions)])
             ELSE IF \E j \in 1..Len(versions) : versions[j].version = version[1]
             THEN LET j == CHOOSE j \in 1..Len(versions) :
                              /\ versions[j].version = version[1]
                              /\ \A h \in 1..(j - 1) : versions[h].version # version[1]
                  IN  Some(versions[j])
             ELSE None

\* VersionManager.list_versions
list_versions(secs, key) ==
    IF ~HasKey(secs, key) THEN <<>>
    ELSE LET versions == secs[IndexOf(secs, key)].versions
         IN  [j \in 1..Len(versions) |->
                 [version |-> versions[j].version,
                  timestamp |-> versions[j].timestamp,
                  metadata |-> versions[j].metadata]]

\* VersionManager.delete_key: [secrets, ret].
delete_key_versions_only(secs, key) ==
    IF HasKey(secs, key)
    THEN [secrets |-> [secs EXCEPT ![IndexOf(secs, key)].versions = <<>>], ret |-> TRUE]
    ELSE [secrets |-> secs, ret |-> FALSE]

delete_key(secs, key) ==
    IF HasKey(secs, key)
    THEN [secrets |-> RemoveAt(secs, IndexOf(secs, key)), ret |-> TRUE]
    ELSE [secrets |-> secs, ret |-> FALSE]

\* VersionManager.delete_version: [secrets, ret].
delete_version_recount(secs, key, version) ==
    IF ~HasKey(secs, key) THEN [secrets |-> secs, ret |-> FALSE]
    ELSE LET i == IndexOf(secs, key)
             versions == secs[i].versions
             original_count == Len(versions)
             keep(v) == v.version # version
             kept == SelectSeq(versions, keep)
         IN  [secrets |-> [secs EXCEPT ![i].versions = kept,
                                       ![i].current_version =
                                           IF kept = <<>> THEN 0
                                           ELSE kept[Len(kept)].version],
              ret |-> Len(kept) < original_count]

delete_version(secs, key, version) ==
    IF ~HasKey(secs, key) THEN [secrets |-> secs, ret |-> FALSE]
    ELSE LET i == IndexOf(secs, key)
             versions == secs[i].versions
             original_count == Len(versions)
             keep(v) == v.version # version
             kept == SelectSeq(versions, keep)
         IN  [secrets |-> [secs EXCEPT ![i].versions = kept],
              ret |-> Len(kept) < original_count]

\* VersionManager.get_all_keys
get_all_keys(secs) == [i \in 1..Len(secs) |-> secs[i].key]

\* VersionManager.rotate_key, the inner loop over one key's versions: a
\* version whose decryption or re-encryption raises is left as it is and the
\* loop goes on.  [versions, rng].
RECURSIVE rotate_versions_rebuilt(_, _, _, _)
rotate_versions_rebuilt(versions, old_key, new_key, draw) ==
    IF versions = <<>> THEN [versions |-> <<>>, rng |-> draw]
    ELSE LET version == Head(versions)
             plaintext == decrypt(version.encrypted_value, old_key)
             new_encrypted == IF plaintext.ok
                              THEN encrypt(plaintext.value, new_key, draw)
                              ELSE plaintext
             done == IF new_encrypted.ok
                     THEN SecretVersion(version.version, new_encrypted.value,
                                        Some(version.timestamp), None, 0)
                     ELSE version
             rest == rotate_versions_rebuilt(Tail(versions), old_key, new_key,
                                             IF new_encrypted.ok THEN draw + 1 ELSE draw)
         IN  [versions |-> <<done>> \o rest.versions, rng |-> rest.rng]

RECURSIVE rotate_versions_one_nonce(_, _, _, _)
rotate_versions_one_nonce(versions, old_key, new_key, draw) ==
    IF versions = <<>> THEN [versions |-> <<>>, rng |-> draw + 1]
    ELSE LET version == Head(versions)
             plaintext == decrypt(version.encrypted_value, old_key)
             new_encrypted == IF plaintext.ok
                              THEN encrypt(plaintext.value, new_key, draw)
                              ELSE plaintext
             done == IF new_encrypted.ok
                     THEN [version EXCEPT !.encrypted_value = new_encrypted.value]
                     ELSE version
             rest == rotate_versions_one_nonce(Tail(versions), old_key, new_key, draw)
         IN  [versions |-> <<done>> \o rest.versions, rng |-> rest.rng]

RECURSIVE rotate_versions(_, _, _, _)
rotate_versions(versions, old_key, new_key, draw) ==
    IF versions = <<>> THEN [versions |-> <<>>, rng |-> draw]
    ELSE LET version == Head(versions)
             plaintext == decrypt(version.encrypted_value, old_key)
             new_encrypted == IF plaintext.ok
                              THEN encrypt(plaintext.value, new_key, draw)
                              ELSE plaintext
             done == IF new_encrypted.ok
                     THEN [version EXCEPT !.encrypted_value = new_encrypted.value]
                     ELSE version
             rest == rotate_versions(Tail(versions), old_key, new_key,
                                     IF new_encrypted.ok THEN draw + 1 ELSE draw)
         IN  [versions |-> <<done>> \o rest.versions, rng |-> rest.rng]

\* VersionManager.rotate_key, the outer loop over the keys.  [secrets, rng].
RECURSIVE rotate_key(_, _, _, _)
rotate_key(secs, old_key, new_key, draw) ==
    IF secs = <<>> THEN [secrets |-> <<>>, rng |-> draw]
    ELSE LET one == rotate_versions(Head(secs).versions, old_key, new_key, draw)
             rest == rotate_key(Tail(secs), old_key, new_key, one.rng)
         IN  [secrets |-> <<[Head(secs) EXCEPT !.versions = one.versions]>> \o rest.secrets,
              rng |-> rest.rng]

\* SecretVersion.to_dict / SecretVersion.from_dict
SecretVersion_to_dict(v) ==
    [version |-> v.version,
     encrypted_value |-> v.encrypted_value,
     timestamp |-> v.timestamp,
     metadata |-> v.metadata]

SecretVersion_from_dict(data, utcnow) ==
    SecretVersion(data.version,
                  data.encrypted_value,
                  IF "timestamp" \in DOMAIN data THEN Some(data.timestamp) ELSE None,
                  IF "metadata" \in DOMAIN data THEN Some(data.metadata) ELSE Some(EmptyDict),
                  utcnow)

\* VersionManager.to_dict: the document, a sequence of <<key, value>> items.
to_dict_latest_only(secs) ==
    [i \in 1..Len(secs) |->
        [key |-> secs[i].key,
         value |-> [versions |-> IF secs[i].versions = <<>> THEN <<>>
                                 ELSE <<SecretVersion_to_dict(
                                          secs[i].versions[Len(secs[i].versions)])>>,
                    current_version |-> secs[i].current_version]]]

to_dict(secs) ==
    [i \in 1..Len(secs) |->
        [key |-> secs[i].key,
         value |-> [versions |-> [j \in 1..Len(secs[i].versions) |->
                                     SecretVersion_to_dict(secs[i].versions[j])],
                    current_version |-> secs[i].current_version]]]

\* The items of a document that from_dict imports without raising: key_data
\* has "versions" and "current_version" and every version has "version" and
\* "encrypted_value" (the subscripts of from_dict; the other fields are read
\* with .get).
WellFormedVersion(data) == {"version", "encrypted_value"} \subseteq DOMAIN data
WellFormedKeyData(key_data) ==
    /\ {"versions", "current_version"} \subseteq DOMAIN key_data
    /\ \A j \in 1..Len(key_data.versions) : WellFormedVersion(key_data.versions[j])

\* VersionManager.from_dict: _secrets is emptied, then the items are imported
\* one by one; the KeyError of an item that is not well formed ends the import
\* and leaves the keys imported before it.
from_dict_recomputing(data, utcnow) ==
    LET bad == {i \in 1..Len(data) : ~WellFormedKeyData(data[i].value)}
        imported == IF bad = {} THEN Len(data)
                    ELSE (CHOOSE i \in bad : \A h \in bad : i <= h) - 1
    IN  [i \in 1..imported |->
            [key |-> data[i].key,
             versions |-> [j \in 1..Len(data[i].value.versions) |->
                              SecretVersion_from_dict(data[i].value.versions[j], utcnow)],
             current_version |->
                 IF data[i].value.versions = <<>> THEN 0
                 ELSE data[i].value.versions[Len(data[i].value.versions)].version]]

from_dict(data, utcnow) ==
    LET bad == {i \in 1..Len(data) : ~WellFormedKeyData(data[i].value)}
        imported == IF bad = {} THEN Len(data)
                    ELSE (CHOOSE i \in bad : \A h \in bad : i <= h) - 1
    IN  [i \in 1..imported |->
            [key |-> data[i].key,
             versions |-> [j \in 1..Len(data[i].value.versions) |->
                              SecretVersion_from_dict(data[i].value.versions[j], utcnow)],
             current_version |-> data[i].value.current_version]]

\* ----------------------------------------------------------------- storage
\* A file is absent, holds a YAML document, holds text YAML cannot parse, or
\* holds the first part only of the bytes of another file (PartialFile; the
\* first part of a first part of a file is a first part of that file).
AbsentFile == [kind |-> "absent"]
CorruptFile == [kind |-> "corrupt"]
PartialFile(f) == IF f.kind = "partial" THEN f ELSE [kind |-> "partial", of |-> f]
yaml_safe_dump(data) == [kind |-> "yaml", data |-> data]
yaml_safe_load(f) == f.data

\* Outcomes of the filesystem during one save: all of it succeeds, the copy to
\* the backup fails (which save ignores), or the write of the temporary file
\* or its rename fails.  SaveOutcomes are those explored for an explicit
\* save() and for the save inside rotate, IoOutcomes those explored for the
\* save inside set and delete.
SaveOutcomes == {"ok", "backup_fail", "write_fail"}
IoOutcomes == {"ok", "write_fail"}

\* StorageBackend.load
storage_load(f) ==
    IF f.kind = "absent" THEN Ok(<<>>)
    ELSE IF f.kind \in {"corrupt", "partial"}
    THEN Err("YAMLError", "Failed to parse secrets file")
    ELSE Ok(yaml_safe_load(f))

\* StorageBackend._create_backup followed by the write of StorageBackend.save:
\* [file, backup, out].
storage_save_backup_after(f, bak, data, io) ==
    IF io = "write_fail"
    THEN [file |-> f, backup |-> bak,
          out |-> Err("IOError", "Failed to save secrets file")]
    ELSE [file |-> yaml_safe_dump(data),
          backup |-> IF f.kind # "absent" /\ io # "backup_fail"
                     THEN yaml_safe_dump(data) ELSE bak,
          out |-> Ok(None)]

storage_save(f, bak, data, io) ==
    LET bak1 == IF f.kind # "absent" /\ io # "backup_fail" THEN f ELSE bak
    IN  IF io = "write_fail"
        THEN [file |-> f, backup |-> bak1,
              out |-> Err("IOError", "Failed to save secrets file")]
        ELSE [file |-> yaml_safe_dump(data), backup |-> bak1, out |-> Ok(None)]

\* The steps of StorageBackend.save and StorageBackend.restore_from_backup on
\* the filesystem, one system call (or one copy) each.
\* _create_backup: shutil.copy2 of the vault file onto the backup; a copy that
\* fails is ignored, and it fails before it opened the backup or after it
\* wrote a part of it.
CopyOutcomes == {"ok", "fail", "fail_partial"}

create_backup_keep_first(f, bak, outcome) ==
    IF outcome = "ok" THEN (IF bak.kind = "absent" THEN f ELSE bak)
    ELSE IF outcome = "fail_partial" THEN PartialFile(f)
    ELSE bak

create_backup(f, bak, outcome) ==
    IF outcome = "ok" THEN f
    ELSE IF outcome = "fail_partial" THEN PartialFile(f)
    ELSE bak

\* yaml.safe_dump into the open temporary file: [file, temp].
save_dump_in_place(f, tmp, data) == [file |-> yaml_safe_dump(data), temp |-> tmp]

save_dump(f, tmp, data) == [file |-> f, temp |-> yaml_safe_dump(data)]

\* temp_file.replace(self.filepath): the rename, [file, temp].
save_replace(f, tmp) == [file |-> tmp, temp |-> AbsentFile]

\* The except branch of save: the temporary file is unlinked when it exists,
\* and IOError is raised.  [file, temp].
save_cleanup_leaving_temp(f, tmp) == [file |-> f, temp |-> tmp]

save_cleanup(f, tmp) == [file |-> f, temp |-> AbsentFile]

\* shutil.copy2(backup_path, self.filepath) opens the vault file for writing,
\* which truncates it, then writes the bytes of the backup.
restore_copy_nothing(f, bak) == f

restore_copy_open(f, bak) == PartialFile(bak)

restore_copy_whole(f, bak) == bak

\* ------------------------------------------------------------------- audit
\* AuditLogger.log, with no audit file configured.
audit_log_failures_unlogged(logs, operation, key, success, error, metadata, utcnow) ==
    IF success
    THEN Append(logs, [timestamp |-> utcnow,
                       operation |-> operation,
                       key |-> key,
                       success |-> success,
                       error |-> error,
                       metadata |-> metadata])
    ELSE logs

audit_log(logs, operation, key, success, error, metadata, utcnow) ==
    Append(logs, [timestamp |-> utcnow,
                  operation |-> operation,
                  key |-> key,
                  success |-> success,
                  error |-> error,
                  metadata |-> metadata])

\* The audit file holds one line per entry.  json.dumps writes an entry as a
\* line and json.loads reads it back; a line that a failed write left without
\* its end is not JSON (json |-> None).
json_dumps(entry) == [json |-> Some(entry)]
json_loads(line) == line.json[1]
BrokenLine == [json |-> None]
AbsentAuditFile == [kind |-> "absent", lines |-> <<>>]

\* Outcomes of the write in _append_to_file: the line is written, nothing is
\* written, or a part of the line is written.
AppendOutcomes == {"ok", "fail", "fail_partial"}

\* AuditLogger._load_logs, called by the constructor when the file exists: any
\* line that does not parse makes the logger start with no entries.
load_logs(f) ==
    IF f.kind = "absent" THEN <<>>
    ELSE IF \E i \in 1..Len(f.lines) : f.lines[i] = BrokenLine THEN <<>>
    ELSE [i \in 1..Len(f.lines) |-> json_loads(f.lines[i])]

\* AuditLogger._append_to_file: open(log_file, "a") and write the line; every
\* exception is swallowed.  Text written after a line without its end
\* continues that line.
append_to_file_truncating(f, log_entry, outcome) ==
    IF outcome = "fail" THEN f
    ELSE [kind |-> "jsonl",
          lines |-> IF outcome = "ok" THEN <<json_dumps(log_entry)>> ELSE <<BrokenLine>>]

append_to_file(f, log_entry, outcome) ==
    IF outcome = "fail" THEN f
    ELSE IF f.lines # <<>> /\ f.lines[Len(f.lines)] = BrokenLine
    THEN f
    ELSE [kind |-> "jsonl",
          lines |-> Append(f.lines, IF outcome = "ok" THEN json_dumps(log_entry)
                                    ELSE BrokenLine)]

\* The audit file of a logger: log_file tells whether a path is configured,
\* in_memory is the constructor's flag, content the file at the path, and lost
\* tells whether a write to the file has failed so far.
NoAuditFile ==
    [log_file |-> FALSE, in_memory |-> FALSE, content |-> AbsentAuditFile, lost |-> FALSE]

\* AuditLogger.log with its file: [logs, sink].
logger_log(logs, sink, operation, key, success, error, metadata, utcnow, outcome) ==
    LET after == audit_log(logs, operation, key, success, error, metadata, utcnow)
        log_entry == after[Len(after)]
    IN  [logs |-> after,
         sink |-> IF sink.log_file /\ ~sink.in_memory
                  THEN [sink EXCEPT !.content = append_to_file(@, log_entry, outcome),
                                    !.lost = @ \/ outcome # "ok"]
                  ELSE sink]

\* The order of two timestamps as get_logs compares them: as the strings
\* datetime.isoformat() + "Z".  A clock reading counts microseconds; isoformat
\* prints no fraction when the microseconds of the second are 0, and "Z" sorts
\* after ".".
TimestampLess(a, b) ==
    IF a \div 1000000 # b \div 1000000 THEN a \div 1000000 < b \div 1000000
    ELSE IF a % 1000000 = 0 THEN FALSE
    ELSE IF b % 1000000 = 0 THEN TRUE
    ELSE a % 1000000 < b % 1000000

\* list.sort(key=timestamp, reverse=True): stable, descending.
RECURSIVE sort_descending(_)
sort_descending(logs) ==
    IF logs = <<>> THEN <<>>
    ELSE LET sorted == sort_descending(SubSeq(logs, 1, Len(logs) - 1))
             e == logs[Len(logs)]
             below == {i \in 1..Len(sorted) : TimestampLess(sorted[i].timestamp, e.timestamp)}
             at == IF below = {} THEN Len(sorted) + 1
                   ELSE CHOOSE i \in below : \A j \in below : i <= j
         IN  SubSeq(sorted, 1, at - 1) \o <<e>> \o SubSeq(sorted, at, Len(sorted))

\* AuditLogger.get_logs: key, operation and limit are Optional.
get_logs_key_only(logs, key, operation, limit) ==
    LET by_key(e) == key = None \/ e.key = key
        sorted == sort_descending(SelectSeq(logs, by_key))
    IN  IF limit = None THEN sorted
        ELSE SubSeq(sorted, 1, IF limit[1] < Len(sorted) THEN limit[1] ELSE Len(sorted))

get_logs(logs, key, operation, limit) ==
    LET by_key(e) == key = None \/ e.key = key
        by_operation(e) == operation = None \/ e.operation = operation[1]
        sorted == sort_descending(SelectSeq(SelectSeq(logs, by_key), by_operation))
    IN  IF limit = None THEN sorted
        ELSE SubSeq(sorted, 1, IF limit[1] < Len(sorted) THEN limit[1] ELSE Len(sorted))

\* AuditLogger.get_logs as a call: it filters and sorts a copy of
\* _memory_logs.  [memory_logs |-> the stored log after the call, ret].
get_logs_call(logs, key, operation, limit) ==
    [memory_logs |-> logs, ret |-> get_logs(logs, key, operation, limit)]

\* ------------------------------------------------------------------- vault
VARIABLES
    master_key,   \* MobileSecretsVault.master_key, the live key
    secrets,      \* MobileSecretsVault.version_manager._secrets
    auto_save,    \* MobileSecretsVault.auto_save
    file,         \* the vault file at secrets_filepath
    backup,       \* the file at secrets_filepath + ".backup"
    audit,        \* MobileSecretsVault.audit_logger._memory_logs
    rng,          \* draws taken from the random stream so far
    now,          \* the wall clock, as datetime.utcnow() reads it
    issued,       \* history of the versions set() added (see Issue)
    temp,         \* the temporary file of the save in progress
    storage_call, \* the call of StorageBackend in progress or just finished,
                  \* followed step by step (see StorageIdle)
    audit_sink,   \* the audit file of audit_logger (see NoAuditFile)
    construction, \* what MobileSecretsVault.__init__ returned or raised; None
                  \* while no instance has been constructed
    processes,    \* the call of StorageBackend each of several processes on the
                  \* same vault file is in (see NoProcesses)
    flocks        \* the fcntl.flock locks held: [proc, target, mode]

vars == <<master_key, secrets, auto_save, file, backup, audit, rng, now, issued,
          temp, storage_call, audit_sink, construction,
                processes, flocks>>

\* A key file on disk, as _load_master_key finds it.
NoFile == [exists |-> FALSE]
KeyFile(key) == [exists |-> TRUE, readable |-> TRUE, content |-> key]
UnreadableFile == [exists |-> TRUE, readable |-> FALSE]

\* CryptoEngine.key_to_string / string_to_key
key_to_string(key) == b64encode(key)
string_to_key(key_string) ==
    IF b64valid(key_string) THEN Ok(b64decode(key_string))
    ELSE Err("binascii.Error", "Incorrect padding")

\* MobileSecretsVault._load_master_key: direct_key and env_key are Optional,
\* key_file is Optional[key file], default_key_file is a key file.
load_master_key_file_before_env(direct_key, env_key, key_file, default_key_file) ==
    IF direct_key # None THEN Ok(direct_key[1])
    ELSE IF key_file # None /\ key_file[1].exists /\ ~key_file[1].readable
    THEN Err("MasterKeyNotFoundError", "Failed to read key file")
    ELSE IF key_file # None /\ key_file[1].exists
    THEN Ok(key_file[1].content)
    ELSE IF env_key # None /\ string_to_key(env_key[1]).ok
    THEN string_to_key(env_key[1])
    ELSE IF default_key_file.exists /\ default_key_file.readable
    THEN Ok(default_key_file.content)
    ELSE Err("MasterKeyNotFoundError", "Master key not found")

load_master_key(direct_key, env_key, key_file, default_key_file) ==
    IF direct_key # None THEN Ok(direct_key[1])
    ELSE IF env_key # None /\ string_to_key(env_key[1]).ok
    THEN string_to_key(env_key[1])
    ELSE IF key_file # None /\ key_file[1].exists /\ ~key_file[1].readable
    THEN Err("MasterKeyNotFoundError", "Failed to read key file")
    ELSE IF key_file # None /\ key_file[1].exists
    THEN Ok(key_file[1].content)
    ELSE IF default_key_file.exists /\ default_key_file.readable
    THEN Ok(default_key_file.content)
    ELSE Err("MasterKeyNotFoundError", "Master key not found")

\* MobileSecretsVault._load_secrets: the store after the load at construction.
load_secrets(f, utcnow) ==
    LET data == storage_load(f)
    IN  IF data.ok /\ data.value # <<>> THEN from_dict(data.value, utcnow) ELSE <<>>

\* The vault file an earlier instance left behind: set("k1", "a") and then
\* set("k1", "b") under K1, at time 0, with the first two draws of the random
\* stream.  PreviousIssued is the history of those two calls.
PreviousStore ==
    LET one == add_version(<<>>, "k1", encrypt("a", K1, 1).value, None, 0).secrets
    IN  add_version(one, "k1", encrypt("b", K1, 2).value, None, 0).secrets
PreviousFile == storage_save(AbsentFile, AbsentFile, to_dict(PreviousStore), "ok").file
PreviousIssued ==
    {[key |-> "k1", version |-> 1, value |-> "a", master_key |-> K1, returned |-> TRUE],
     [key |-> "k1", version |-> 2, value |-> "b", master_key |-> K1, returned |-> TRUE]}

\* The constructor calls explored: the arguments and the environment of
\* MobileSecretsVault.__init__.
ConstructorCalls ==
    { [master_key |-> Some(K1), env |-> None, master_key_file |-> None,
       default_key_file |-> NoFile, vault_file |-> AbsentFile, auto_save |-> TRUE],
      [master_key |-> Some(K1), env |-> None, master_key_file |-> None,
       default_key_file |-> NoFile, vault_file |-> AbsentFile, auto_save |-> FALSE],
      [master_key |-> None, env |-> Some(key_to_string(K1)), master_key_file |-> None,
       default_key_file |-> NoFile, vault_file |-> PreviousFile, auto_save |-> TRUE],
      [master_key |-> None, env |-> Some([raw |-> "not base64"]),
       master_key_file |-> Some(KeyFile(K2)),
       default_key_file |-> NoFile, vault_file |-> PreviousFile, auto_save |-> TRUE],
      [master_key |-> Some(KShort), env |-> None, master_key_file |-> None,
       default_key_file |-> KeyFile(K1), vault_file |-> AbsentFile, auto_save |-> TRUE],
      [master_key |-> None, env |-> None, master_key_file |-> Some(UnreadableFile),
       default_key_file |-> KeyFile(K1), vault_file |-> AbsentFile, auto_save |-> TRUE],
      [master_key |-> None, env |-> None, master_key_file |-> None,
       default_key_file |-> NoFile, vault_file |-> AbsentFile, auto_save |-> TRUE] }

\* The position of a call of StorageBackend: op is "none", "save" or "restore";
\* pc the step to take next ("done" once the call returned or raised,
\* "crashed" when the process died in it); data the document save was given;
\* presave and prebackup what the vault file and the backup held when the call
\* began; out what the call returned or raised.  Of the most recent save:
\* last_presave is what the vault file held when it began (None before the
\* first save) and backup_copied whether its _create_backup copied the vault
\* file.
StorageIdle ==
    [op |-> "none", pc |-> "idle", data |-> <<>>, presave |-> AbsentFile,
     prebackup |-> AbsentFile, last_presave |-> None, backup_copied |-> FALSE,
     out |-> None]

\* The processes that open the same vault file, each with its own
\* StorageBackend: the call a process is in, the document it saves, its
\* temporary file and what its call returned.  No call has begun.
Procs == {"p1", "p2"}
NoProcesses ==
    [p \in Procs |-> [op |-> "none", pc |-> "idle", data |-> <<>>,
                      temp |-> AbsentFile, out |-> None]]

\* MobileSecretsVault.__init__, for the constructor calls that do not raise.
Init ==
    \E c \in ConstructorCalls :
        LET key == load_master_key(c.master_key, c.env, c.master_key_file,
                                   c.default_key_file)
        IN  /\ key.ok
            /\ master_key = key.value
            /\ auto_save = c.auto_save
            /\ file = c.vault_file
            /\ backup = AbsentFile
            /\ now = 1
            /\ secrets = load_secrets(c.vault_file, now)
            /\ audit = audit_log(<<>>, "init", None, TRUE, None, EmptyDict, now)
            /\ rng = 3
            /\ issued = IF c.vault_file = PreviousFile THEN PreviousIssued ELSE {}
            /\ temp = AbsentFile
            /\ storage_call = StorageIdle
            /\ audit_sink = NoAuditFile
            /\ construction = Some(Ok(None))
            /\ processes = NoProcesses /\ flocks = {}

\* History of the calls of set() that added a version: the secret's name, the
\* version number, the plaintext, the live key of the call and whether the
\* call returned (it raises when the save after the add fails).  The entry of
\* (key, version) is replaced when a later set adds that version again.
Issue(hist, key, version, value, live_key, returned) ==
    {h \in hist : ~(h.key = key /\ h.version = version)}
    \cup {[key |-> key, version |-> version, value |-> value,
            master_key |-> live_key, returned |-> returned]}

\* The exception a call of the facade raises for an inner exception e.
Wrapped(prefix, e) == Err("VaultError", [prefix |-> prefix, cause |-> e.msg])

\* A call of the facade is an operator from the state before the call to
\* [master_key, secrets, file, backup, audit, rng, out]: the state after the
\* call and what the call returns or raises.  The action applies it.
Apply(call) ==
    /\ master_key' = call.master_key
    /\ secrets' = call.secrets
    /\ file' = call.file
    /\ backup' = call.backup
    /\ audit' = call.audit
    /\ rng' = call.rng
    /\ UNCHANGED <<auto_save, now, temp, storage_call, audit_sink, construction,
                processes, flocks>>

\* MobileSecretsVault.save
vault_save(secs, f, bak, io) == storage_save(f, bak, to_dict(secs), io)

\* MobileSecretsVault.set
set_call(key, value, metadata, io) ==
    LET encrypted == encrypt(value, master_key, rng)
        added == add_version(secrets, key, encrypted.value, metadata, now)
        saved == IF auto_save THEN vault_save(added.secrets, file, backup, io)
                 ELSE [file |-> file, backup |-> backup, out |-> Ok(None)]
    IN  IF ~encrypted.ok
        THEN [master_key |-> master_key, secrets |-> secrets, file |-> file,
              backup |-> backup, rng |-> rng,
              audit |-> audit_log(audit, "set", Some(key), FALSE, Some(encrypted.msg),
                                  EmptyDict, now),
              out |-> Wrapped("Failed to set secret", encrypted)]
        ELSE [master_key |-> master_key, secrets |-> added.secrets, file |-> saved.file,
              backup |-> saved.backup, rng |-> rng + 1,
              audit |-> IF saved.out.ok
                        THEN audit_log(audit, "set", Some(key), TRUE, None,
                                       {<<"version", added.ret>>}, now)
                        ELSE audit_log(audit, "set", Some(key), FALSE, Some(saved.out.msg),
                                       EmptyDict, now),
              out |-> IF saved.out.ok THEN Ok(added.ret)
                      ELSE Wrapped("Failed to set secret", saved.out)]

Set(key, value, metadata, io) ==
    LET call == set_call(key, value, metadata, io)
    IN  /\ Len(audit) < MaxLog
        /\ Apply(call)
        /\ issued' = IF encrypt(value, master_key, rng).ok
                     THEN Issue(issued, key,
                                add_version(secrets, key, None, None, now).ret,
                                value, master_key, call.out.ok)
                     ELSE issued

\* MobileSecretsVault.get, on a store under a live key: what it returns or
\* raises.
get_outcome(secs, key_bytes, key, version) ==
    LET secret_version == get_version(secs, key, version)
    IN  IF secret_version = None
        THEN Err("SecretNotFoundError", "Secret not found")
        ELSE LET plaintext == decrypt(secret_version[1].encrypted_value, key_bytes)
             IN  IF plaintext.ok THEN plaintext
                 ELSE Wrapped("Failed to get secret", plaintext)

get_call_deleting_on_failure(key, version) ==
    LET out == get_outcome(secrets, master_key, key, version)
    IN  [master_key |-> master_key,
         secrets |-> IF out.ok THEN secrets ELSE delete_key(secrets, key).secrets,
         file |-> file, backup |-> backup, rng |-> rng, out |-> out, audit |-> audit]

get_call(key, version) ==
    LET out == get_outcome(secrets, master_key, key, version)
    IN  [master_key |-> master_key, secrets |-> secrets, file |-> file,
         backup |-> backup, rng |-> rng, out |-> out,
         audit |-> IF out.ok
                   THEN audit_log(audit, "get", Some(key), TRUE, None,
                                  {<<"version",
                                     get_version(secrets, key, version)[1].version>>}, now)
                   ELSE IF out.type = "SecretNotFoundError"
                   THEN audit_log(audit, "get", Some(key), FALSE, Some(out.msg),
                                  EmptyDict, now)
                   ELSE audit_log(audit, "get", Some(key), FALSE, Some(out.msg.cause),
                                  EmptyDict, now)]

Get(key, version) ==
    /\ Len(audit) < MaxLog
    /\ Apply(get_call(key, version))
    /\ UNCHANGED issued

\* MobileSecretsVault.delete
delete_call(key, io) ==
    LET deleted == delete_key(secrets, key)
        saved == IF deleted.ret /\ auto_save
                 THEN vault_save(deleted.secrets, file, backup, io)
                 ELSE [file |-> file, backup |-> backup, out |-> Ok(None)]
    IN  [master_key |-> master_key, secrets |-> deleted.secrets, file |-> saved.file,
         backup |-> saved.backup, rng |-> rng,
         audit |-> IF saved.out.ok
                   THEN audit_log(audit, "delete", Some(key), deleted.ret, None,
                                  EmptyDict, now)
                   ELSE audit_log(audit, "delete", Some(key), FALSE, Some(saved.out.msg),
                                  EmptyDict, now),
         out |-> IF saved.out.ok THEN Ok(deleted.ret)
                 ELSE Wrapped("Failed to delete secret", saved.out)]

Delete(key, io) ==
    /\ Len(audit) < MaxLog
    /\ Apply(delete_call(key, io))
    /\ UNCHANGED issued

\* MobileSecretsVault.rotate: new_key is Optional; the value returned is
\* `new_key if new_key else None`.
rotate_call(new_key, io) ==
    LET generated == new_key = None
        key_bytes == IF generated THEN generate_key(rng) ELSE new_key[1]
        old_key == master_key
        rotated == rotate_key(secrets, old_key, key_bytes,
                              IF generated THEN rng + 1 ELSE rng)
        saved == vault_save(rotated.secrets, file, backup, io)
    IN  [master_key |-> key_bytes, secrets |-> rotated.secrets, file |-> saved.file,
         backup |-> saved.backup, rng |-> rotated.rng,
         audit |-> IF saved.out.ok
                   THEN audit_log(audit, "rotate", None, TRUE, None,
                                  {<<"secret_count", Len(get_all_keys(rotated.secrets))>>},
                                  now)
                   ELSE audit_log(audit, "rotate", None, FALSE, Some(saved.out.msg),
                                  EmptyDict, now),
         out |-> IF ~saved.out.ok THEN Wrapped("Failed to rotate key", saved.out)
                 ELSE IF key_bytes.len > 0 THEN Ok(Some(key_bytes))
                 ELSE Ok(None)]

Rotate(new_key, io) ==
    /\ Len(audit) < MaxLog
    /\ Apply(rotate_call(new_key, io))
    /\ UNCHANGED issued

\* MobileSecretsVault.list_versions
list_versions_call(key) ==
    LET versions == list_versions(secrets, key)
    IN  [master_key |-> master_key, secrets |-> secrets, file |-> file,
         backup |-> backup, rng |-> rng, out |-> Ok(versions),
         audit |-> audit_log(audit, "list_versions", Some(key), TRUE, None,
                             {<<"version_count", Len(versions)>>}, now)]

ListVersions(key) ==
    /\ Len(audit) < MaxLog
    /\ Apply(list_versions_call(key))
    /\ UNCHANGED issued

\* MobileSecretsVault.list_keys: returns get_all_keys and changes nothing.
list_keys_call ==
    [master_key |-> master_key, secrets |-> secrets, file |-> file,
     backup |-> backup, rng |-> rng, audit |-> audit,
     out |-> Ok(get_all_keys(secrets))]

ListKeys ==
    /\ Apply(list_keys_call)
    /\ UNCHANGED issued

\* MobileSecretsVault.get_audit_log: get_logs(key=key, limit=limit) of the
\* audit logger; limit is 100 when not given.
get_audit_log_call(key, limit) ==
    [master_key |-> master_key, secrets |-> secrets, file |-> file,
     backup |-> backup, rng |-> rng,
     audit |-> get_logs_call(audit, key, None, limit).memory_logs,
     out |-> Ok(get_logs_call(audit, key, None, limit).ret)]

GetAuditLog(key, limit) ==
    /\ Apply(get_audit_log_call(key, limit))
    /\ UNCHANGED issued

\* MobileSecretsVault.save, called by the user.
save_call(io) ==
    LET saved == vault_save(secrets, file, backup, io)
    IN  [master_key |-> master_key, secrets |-> secrets, file |-> saved.file,
         backup |-> saved.backup, rng |-> rng, audit |-> audit, out |-> saved.out]

Save(io) ==
    /\ Apply(save_call(io))
    /\ UNCHANGED issued

\* VersionManager.delete_version, called on vault.version_manager.
delete_version_call(key, version) ==
    LET deleted == delete_version(secrets, key, version)
    IN  [master_key |-> master_key, secrets |-> deleted.secrets, file |-> file,
         backup |-> backup, rng |-> rng, audit |-> audit, out |-> Ok(deleted.ret)]

DeleteVersion(key, version) ==
    /\ Apply(delete_version_call(key, version))
    /\ UNCHANGED issued

\* The wall clock advances between two readings.
Tick ==
    /\ now < MaxClock
    /\ now' = now + 1
    /\ UNCHANGED <<master_key, secrets, auto_save, file, backup, audit, rng, issued,
                   temp, storage_call, audit_sink, construction,
                processes, flocks>>

\* The arguments explored.
VersionArgs == 1..3
SetArgs == {[value |-> "a", metadata |-> None],
            [value |-> "b", metadata |-> Some({<<"env", "prod">>})]}
GetArgs == {None} \cup {Some(n) : n \in VersionArgs}
RotateArgs == {None, Some(K2), Some(KShort)}

Next ==
    \/ \E key \in SecretNames, a \in SetArgs, io \in IoOutcomes :
          Set(key, a.value, a.metadata, io)
    \/ \E key \in SecretNames, version \in GetArgs : Get(key, version)
    \/ \E key \in SecretNames, io \in IoOutcomes : Delete(key, io)
    \/ \E new_key \in RotateArgs, io \in SaveOutcomes : Rotate(new_key, io)
    \/ \E key \in SecretNames : ListVersions(key)
    \/ ListKeys
    \/ \E io \in SaveOutcomes : Save(io)
    \/ \E key \in SecretNames, version \in VersionArgs : DeleteVersion(key, version)
    \/ Tick

Spec == Init /\ [][Next]_vars

\* The calls that write the store or the live key.  The other calls (get,
\* list_versions, list_keys, save) leave secrets, master_key, rng and issued as
\* they are, and no call reads a timestamp back, so the stores and keys
\* reachable under SpecWrite within a number of calls are those reachable
\* under Spec, up to the timestamps: here the clock stands still, and the
\* versions of this instance (time 1) differ in time from the loaded ones
\* (time 0) only.
NextWrite ==
    \/ \E key \in SecretNames, a \in SetArgs, io \in IoOutcomes :
          Set(key, a.value, a.metadata, io)
    \/ \E key \in SecretNames, io \in IoOutcomes : Delete(key, io)
    \/ \E new_key \in RotateArgs, io \in SaveOutcomes : Rotate(new_key, io)
    \/ \E key \in SecretNames, version \in VersionArgs : DeleteVersion(key, version)

SpecWrite == Init /\ [][NextWrite]_vars

\* set and VersionManager.delete_version alone.
NextSetDeleteVersion ==
    \/ \E key \in SecretNames, a \in SetArgs, io \in IoOutcomes :
          Set(key, a.value, a.metadata, io)
    \/ \E key \in SecretNames, version \in VersionArgs : DeleteVersion(key, version)

SpecSetDeleteVersion == Init /\ [][NextSetDeleteVersion]_vars

\* An instance with auto_save on whose filesystem does not fail, under set,
\* delete and rotate.
InitAutoSave == Init /\ auto_save

NextAutoSave ==
    \/ \E key \in SecretNames, a \in SetArgs : Set(key, a.value, a.metadata, "ok")
    \/ \E key \in SecretNames : Delete(key, "ok")
    \/ \E new_key \in RotateArgs : Rotate(new_key, "ok")

SpecAutoSave == InitAutoSave /\ [][NextAutoSave]_vars

\* The calls of the facade that write the audit log.
NextAudited ==
    \/ \E key \in SecretNames, a \in SetArgs, io \in IoOutcomes :
          Set(key, a.value, a.metadata, io)
    \/ \E key \in SecretNames, version \in GetArgs : Get(key, version)
    \/ \E key \in SecretNames, io \in IoOutcomes : Delete(key, io)
    \/ \E new_key \in RotateArgs, io \in SaveOutcomes : Rotate(new_key, io)
    \/ \E key \in SecretNames : ListVersions(key)

SpecAudited == Init /\ [][NextAudited]_vars

\* set, get, delete and VersionManager.delete_version.
NextGet ==
    \/ \E key \in SecretNames, a \in SetArgs, io \in IoOutcomes :
          Set(key, a.value, a.metadata, io)
    \/ \E key \in SecretNames, version \in GetArgs : Get(key, version)
    \/ \E key \in SecretNames, io \in IoOutcomes : Delete(key, io)
    \/ \E key \in SecretNames, version \in VersionArgs : DeleteVersion(key, version)

SpecGet == Init /\ [][NextGet]_vars

\* The calls that write the store or the live key, on a filesystem that does
\* not fail: the stores and live keys reachable are those of SpecWrite, a call
\* whose save fails having changed the store as one whose save succeeds.
NextWriteNoFailure ==
    \/ \E key \in SecretNames, a \in SetArgs : Set(key, a.value, a.metadata, "ok")
    \/ \E key \in SecretNames : Delete(key, "ok")
    \/ \E new_key \in RotateArgs : Rotate(new_key, "ok")
    \/ \E key \in SecretNames, version \in VersionArgs : DeleteVersion(key, version)

SpecWriteNoFailure == Init /\ [][NextWriteNoFailure]_vars

\* An instance constructed with a 32-byte key on an absent vault file, under
\* set, get, delete, rotate and save.
InitFresh == Init /\ file = AbsentFile /\ master_key.len = KEY_SIZE

NextFresh ==
    \/ \E key \in SecretNames, a \in SetArgs, io \in IoOutcomes :
          Set(key, a.value, a.metadata, io)
    \/ \E key \in SecretNames, version \in GetArgs : Get(key, version)
    \/ \E key \in SecretNames, io \in IoOutcomes : Delete(key, io)
    \/ \E new_key \in RotateArgs, io \in SaveOutcomes : Rotate(new_key, io)
    \/ \E io \in SaveOutcomes : Save(io)

SpecFresh == InitFresh /\ [][NextFresh]_vars

\* ------------------------------------------------------------ observations
CurrentVersion(secs, key) ==
    IF HasKey(secs, key) THEN secs[IndexOf(secs, key)].current_version ELSE 0
VersionsOf(secs, key) ==
    IF HasKey(secs, key) THEN secs[IndexOf(secs, key)].versions ELSE <<>>
VersionNumbers(secs, key) ==
    {VersionsOf(secs, key)[j].version : j \in 1..Len(VersionsOf(secs, key))}
Max(S) == CHOOSE n \in S : \A m \in S : m <= n
LastAudit == audit[Len(audit)]

\* ------------------------------------------------------------------ claims
\* C1: under a 32-byte live master key, a set(k, v) that returns, returns the
\* previous current_version(k) + 1 (1 when k is absent), and a get(k) right
\* after it returns v; the set returns whenever its save does not fail.
C1_SetReturnsNextVersionAndGetReadsIt ==
    [][\A key \in SecretNames, a \in SetArgs, io \in IoOutcomes :
          (/\ Set(key, a.value, a.metadata, io)
           /\ master_key.len = KEY_SIZE)
          => LET out == set_call(key, a.value, a.metadata, io).out
             IN  /\ (io = "ok" \/ ~auto_save) => out.ok
                 /\ out.ok
                    => /\ out = Ok(IF HasKey(secrets, key)
                                   THEN CurrentVersion(secrets, key) + 1 ELSE 1)
                       /\ get_outcome(secrets', master_key', key, None) = Ok(a.value)]_vars

\* C1 witness: a set has just returned version 4 of a key that lost version 2,
\* and get reads the value back.
C1_Witness ==
    /\ LastAudit.operation = "set" /\ LastAudit.success
    /\ LastAudit.metadata = {<<"version", 4>>}
    /\ VersionNumbers(secrets, LastAudit.key[1]) = {1, 3, 4}
    /\ get_outcome(secrets, master_key, LastAudit.key[1], None).ok

\* C2: after any sequence of set and delete_version calls, get(k, version=i)
\* returns the plaintext given to the set that returned i (under the live key
\* of that set) for every surviving version i, and get(k) returns what
\* get(k, version=highest surviving version) returns.
C2_GetReturnsWhatSetStored ==
    \A key \in SecretNames :
        /\ \A h \in issued :
              (/\ h.key = key /\ h.returned /\ h.master_key = master_key
               /\ h.version \in VersionNumbers(secrets, key))
              => get_outcome(secrets, master_key, key, Some(h.version)) = Ok(h.value)
        /\ VersionNumbers(secrets, key) # {}
              => get_outcome(secrets, master_key, key, None)
                   = get_outcome(secrets, master_key, key,
                                 Some(Max(VersionNumbers(secrets, key))))

\* C2 witness: versions 1 and 3 of a key survive the deletion of version 2 and
\* get reads both, the latest without naming it.
C2_Witness ==
    /\ VersionNumbers(secrets, "k1") = {1, 3}
    /\ get_outcome(secrets, master_key, "k1", Some(1)) = Ok("a")
    /\ get_outcome(secrets, master_key, "k1", None).ok
    /\ \E h \in issued : h.key = "k1" /\ h.version = 3 /\ h.returned
                         /\ get_outcome(secrets, master_key, "k1", None) = Ok(h.value)

\* C3: the version numbers that successive set(k, .) calls return are strictly
\* increasing, whatever happens between the sets (delete(k) included): a set
\* returns a number above every number a set returned for k before.
C3_SetNeverReusesAVersion ==
    [][\A key \in SecretNames, a \in SetArgs, io \in IoOutcomes :
          (Set(key, a.value, a.metadata, io)
           /\ set_call(key, a.value, a.metadata, io).out.ok)
          => \A h \in issued :
                (h.key = key /\ h.returned)
                => set_call(key, a.value, a.metadata, io).out.value > h.version]_vars

\* C4: delete_version leaves every key and its current_version as they are;
\* under set and delete_version, current_version of a key is the largest
\* version number ever assigned to it, and the next add takes
\* current_version + 1.
C4_Inv(secs, hist) ==
    \A key \in SecretNames :
        HasKey(secs, key)
        => /\ \E h \in hist : h.key = key
           /\ CurrentVersion(secs, key) = Max({h.version : h \in {g \in hist : g.key = key}})

C4_DeleteVersionKeepsCurrentVersion ==
    [][/\ C4_Inv(secrets, issued) /\ C4_Inv(secrets', issued')
       /\ \A key \in SecretNames, version \in VersionArgs :
             DeleteVersion(key, version)
             => \A k \in SecretNames :
                   /\ HasKey(secrets', k) = HasKey(secrets, k)
                   /\ CurrentVersion(secrets', k) = CurrentVersion(secrets, k)
       /\ \A key \in SecretNames, a \in SetArgs, io \in IoOutcomes :
             (Set(key, a.value, a.metadata, io) /\ master_key.len = KEY_SIZE)
             => /\ CurrentVersion(secrets', key) = CurrentVersion(secrets, key) + 1
                /\ VersionNumbers(secrets', key)
                     = VersionNumbers(secrets, key) \cup {CurrentVersion(secrets, key) + 1}]_vars

\* C4 witness: after versions 1, 2, 3 and the deletion of version 3, the next
\* set took version 4.
C4_Witness ==
    /\ VersionNumbers(secrets, "k1") = {1, 2, 4}
    /\ CurrentVersion(secrets, "k1") = 4

\* C5: every key present in the store has a non-empty versions sequence.
C5_NoKeyWithoutVersions ==
    \A i \in 1..Len(secrets) : secrets[i].versions # <<>>

\* C6: each key appears once, its versions are in strictly ascending version
\* order, and list_versions(k) returns exactly them, in that order, as
\* {version, timestamp, metadata} without the encrypted blob (the empty
\* sequence when k is absent).
C6_VersionsAscendAndListed ==
    /\ \A i, j \in 1..Len(secrets) : secrets[i].key = secrets[j].key => i = j
    /\ \A key \in SecretNames :
          LET versions == VersionsOf(secrets, key)
              listed == list_versions(secrets, key)
          IN  /\ \A j, h \in 1..Len(versions) :
                    j < h => versions[j].version < versions[h].version
              /\ Len(listed) = Len(versions)
              /\ \A j \in 1..Len(versions) :
                    /\ DOMAIN listed[j] = {"version", "timestamp", "metadata"}
                    /\ listed[j].version = versions[j].version
                    /\ listed[j].timestamp = versions[j].timestamp
                    /\ listed[j].metadata = versions[j].metadata
              /\ ~HasKey(secrets, key) => listed = <<>>

\* C6 witness: a key with a gap in its versions and one with metadata, next to
\* an absent key.
C6_Witness ==
    /\ VersionNumbers(secrets, "k1") = {1, 3}
    /\ Len(list_versions(secrets, "k1")) = 2
    /\ list_versions(secrets, "k1")[2].metadata # EmptyDict
    /\ list_versions(secrets, "k1")[2].timestamp > list_versions(secrets, "k1")[1].timestamp
    /\ ~HasKey(secrets, "k2")

\* Every version of the store decrypts under the key.
AllDecrypt(secs, key_bytes) ==
    \A i \in 1..Len(secs) : \A j \in 1..Len(secs[i].versions) :
        decrypt(secs[i].versions[j].encrypted_value, key_bytes).ok

\* C7: when every version decrypts under the live key K and K' has 32 bytes,
\* rotate(K') keeps the keys, the version numbers, the plaintexts, the
\* timestamps, the metadata and current_version, and gives every version a blob
\* with another ciphertext and another nonce that decrypts under K'.
C7_RotatePreservesSecrets ==
    [][\A new_key \in RotateArgs, io \in SaveOutcomes :
          (/\ Rotate(new_key, io)
           /\ master_key.len = KEY_SIZE
           /\ AllDecrypt(secrets, master_key)
           /\ master_key'.len = KEY_SIZE)
          => /\ Len(secrets') = Len(secrets)
             /\ \A i \in 1..Len(secrets) :
                   /\ secrets'[i].key = secrets[i].key
                   /\ secrets'[i].current_version = secrets[i].current_version
                   /\ Len(secrets'[i].versions) = Len(secrets[i].versions)
                   /\ \A j \in 1..Len(secrets[i].versions) :
                         LET before == secrets[i].versions[j]
                             after == secrets'[i].versions[j]
                         IN  /\ after.version = before.version
                             /\ after.timestamp = before.timestamp
                             /\ after.metadata = before.metadata
                             /\ decrypt(after.encrypted_value, master_key')
                                  = decrypt(before.encrypted_value, master_key)
                             /\ after.encrypted_value.ciphertext
                                  # before.encrypted_value.ciphertext
                             /\ after.encrypted_value.nonce # before.encrypted_value.nonce]_vars

\* C7 witness: a rotation has just re-encrypted three versions, one of them
\* with metadata, and all of them decrypt under the new live key.
C7_Witness ==
    /\ LastAudit.operation = "rotate" /\ LastAudit.success
    /\ master_key # K1 /\ master_key.len = KEY_SIZE
    /\ Len(VersionsOf(secrets, "k1")) = 3
    /\ VersionsOf(secrets, "k1")[3].metadata # EmptyDict
    /\ AllDecrypt(secrets, master_key)

\* C8: a rotation in which some version fails to decrypt under the old key, or
\* to re-encrypt under the new one, raises and leaves the store, the live key
\* and the vault file as they were.
C8_RotateIsAllOrNothing ==
    [][\A new_key \in RotateArgs, io \in SaveOutcomes :
          (/\ Rotate(new_key, io)
           /\ \E i \in 1..Len(secrets) : \E j \in 1..Len(secrets[i].versions) :
                 LET plaintext == decrypt(secrets[i].versions[j].encrypted_value, master_key)
                 IN  \/ ~plaintext.ok
                     \/ ~encrypt(plaintext.value,
                                 rotate_call(new_key, io).master_key, rng).ok)
          => /\ ~rotate_call(new_key, io).out.ok
             /\ secrets' = secrets
             /\ master_key' = master_key
             /\ file' = file]_vars

\* C9: a rotate that returns, returns the new live key (another key than the
\* old one when it was generated); afterwards every get succeeds in the
\* instance and in an instance reopened on the vault file with the returned
\* key, and every get fails in an instance reopened with the old key.
C9_RotateReturnsTheWorkingKey ==
    [][\A new_key \in RotateArgs, io \in SaveOutcomes :
          (Rotate(new_key, io) /\ rotate_call(new_key, io).out.ok)
          => LET returned == rotate_call(new_key, io).out.value
                 reopened == load_secrets(file', now)
             IN  /\ returned = Some(master_key')
                 /\ new_key = None => master_key' # master_key
                 /\ \A key \in SecretNames : \A n \in VersionNumbers(secrets', key) :
                       get_outcome(secrets', master_key', key, Some(n)).ok
                 /\ \A key \in SecretNames : \A n \in VersionNumbers(reopened, key) :
                       /\ get_outcome(reopened, returned[1], key, Some(n)).ok
                       /\ master_key' # master_key
                          => ~get_outcome(reopened, master_key, key, Some(n)).ok]_vars

\* C10: the live master key has exactly 32 bytes.
C10_LiveKeyHas32Bytes == master_key.len = KEY_SIZE

\* -------------------------------------------- StorageBackend, step by step
\* The documents given to StorageBackend.save.
StorageDocs ==
    {<<>>, to_dict(PreviousStore),
     to_dict(add_version(<<>>, "k2", encrypt("a", K1, 1).value, None, 0).secrets)}

VaultUnchanged ==
    UNCHANGED <<master_key, secrets, auto_save, audit, rng, now, issued, audit_sink,
                construction,
                processes, flocks>>

StorageFree == storage_call.pc \in {"idle", "done", "crashed"}

\* save(data) is called: mkdir, and the test of self.filepath.exists().
SaveBegin(data) ==
    /\ StorageFree
    /\ storage_call' = [op |-> "save",
                        pc |-> IF file.kind # "absent" THEN "backup" ELSE "create_temp",
                        data |-> data, presave |-> file, prebackup |-> backup,
                        last_presave |-> Some(file), backup_copied |-> FALSE,
                        out |-> None]
    /\ UNCHANGED <<file, backup, temp>>
    /\ VaultUnchanged

\* _create_backup
SaveBackup(outcome) ==
    /\ storage_call.op = "save" /\ storage_call.pc = "backup"
    /\ backup' = create_backup(file, backup, outcome)
    /\ storage_call' = [storage_call EXCEPT !.pc = "create_temp",
                                            !.backup_copied = (outcome = "ok")]
    /\ UNCHANGED <<file, temp>>
    /\ VaultUnchanged

\* tempfile.NamedTemporaryFile: the temporary file exists and is empty, or
\* the creation fails and save raises with temp_file = None.
SaveCreateTemp(ok) ==
    /\ storage_call.op = "save" /\ storage_call.pc = "create_temp"
    /\ IF ok
       THEN /\ temp' = PartialFile(yaml_safe_dump(storage_call.data))
            /\ storage_call' = [storage_call EXCEPT !.pc = "dump"]
       ELSE /\ temp' = temp
            /\ storage_call' = [storage_call EXCEPT
                                  !.pc = "done",
                                  !.out = Some(Err("IOError", "Failed to save secrets file"))]
    /\ UNCHANGED <<file, backup>>
    /\ VaultUnchanged

\* flock, yaml.safe_dump, unlock, close; on failure the temporary file is
\* unlinked and save raises.
SaveDump(ok) ==
    /\ storage_call.op = "save" /\ storage_call.pc = "dump"
    /\ IF ok
       THEN /\ file' = save_dump(file, temp, storage_call.data).file
            /\ temp' = save_dump(file, temp, storage_call.data).temp
            /\ storage_call' = [storage_call EXCEPT !.pc = "replace"]
       ELSE /\ file' = save_cleanup(file, temp).file
            /\ temp' = save_cleanup(file, temp).temp
            /\ storage_call' = [storage_call EXCEPT
                                  !.pc = "done",
                                  !.out = Some(Err("IOError", "Failed to save secrets file"))]
    /\ UNCHANGED backup
    /\ VaultUnchanged

\* temp_file.replace(self.filepath); on failure the temporary file is unlinked
\* and save raises.
SaveReplace(ok) ==
    /\ storage_call.op = "save" /\ storage_call.pc = "replace"
    /\ IF ok
       THEN /\ file' = save_replace(file, temp).file
            /\ temp' = save_replace(file, temp).temp
            /\ storage_call' = [storage_call EXCEPT !.pc = "done", !.out = Some(Ok(None))]
       ELSE /\ file' = save_cleanup(file, temp).file
            /\ temp' = save_cleanup(file, temp).temp
            /\ storage_call' = [storage_call EXCEPT
                                  !.pc = "done",
                                  !.out = Some(Err("IOError", "Failed to save secrets file"))]
    /\ UNCHANGED backup
    /\ VaultUnchanged

\* restore_from_backup is called: get_backup_path tests whether the backup
\* exists, and restore_from_backup returns False when it does not.
RestoreBegin ==
    /\ StorageFree
    /\ storage_call' = [op |-> "restore",
                        pc |-> IF backup.kind # "absent" THEN "copy_open" ELSE "done",
                        data |-> <<>>, presave |-> file, prebackup |-> backup,
                        last_presave |-> storage_call.last_presave,
                        backup_copied |-> storage_call.backup_copied,
                        out |-> IF backup.kind # "absent" THEN None ELSE Some(Ok(FALSE))]
    /\ UNCHANGED <<file, backup, temp>>
    /\ VaultUnchanged

\* shutil.copy2 opens the vault file for writing, or fails to.
RestoreCopyOpen(ok) ==
    /\ storage_call.op = "restore" /\ storage_call.pc = "copy_open"
    /\ IF ok
       THEN /\ file' = restore_copy_open(file, backup)
            /\ storage_call' = [storage_call EXCEPT !.pc = "copy_write"]
       ELSE /\ file' = file
            /\ storage_call' = [storage_call EXCEPT
                                  !.pc = "done",
                                  !.out = Some(Err("OSError", "copy2"))]
    /\ UNCHANGED <<backup, temp>>
    /\ VaultUnchanged

\* shutil.copy2 writes the bytes and restore_from_backup returns True, or the
\* write fails and the exception leaves restore_from_backup.
RestoreCopyWrite(ok) ==
    /\ storage_call.op = "restore" /\ storage_call.pc = "copy_write"
    /\ IF ok
       THEN /\ file' = restore_copy_whole(file, backup)
            /\ storage_call' = [storage_call EXCEPT !.pc = "done", !.out = Some(Ok(TRUE))]
       ELSE /\ file' = file
            /\ storage_call' = [storage_call EXCEPT
                                  !.pc = "done",
                                  !.out = Some(Err("OSError", "copy2"))]
    /\ UNCHANGED <<backup, temp>>
    /\ VaultUnchanged

\* The process dies inside a call of StorageBackend: the files stay as they
\* are, the temporary file included.
Crash ==
    /\ ~StorageFree
    /\ storage_call' = [storage_call EXCEPT !.pc = "crashed"]
    /\ UNCHANGED <<file, backup, temp>>
    /\ VaultUnchanged

\* A StorageBackend on a vault file that is absent or was written earlier.
InitStorage ==
    /\ master_key = K1 /\ secrets = <<>> /\ auto_save = TRUE
    /\ audit = <<>> /\ rng = 3 /\ now = 1 /\ issued = {}
    /\ file \in {AbsentFile, PreviousFile}
    /\ backup = AbsentFile
    /\ temp = AbsentFile
    /\ storage_call = StorageIdle
    /\ audit_sink = NoAuditFile
    /\ construction = None
    /\ processes = NoProcesses /\ flocks = {}

NextStorage ==
    \/ \E data \in StorageDocs : SaveBegin(data)
    \/ \E outcome \in CopyOutcomes : SaveBackup(outcome)
    \/ \E ok \in BOOLEAN : SaveCreateTemp(ok)
    \/ \E ok \in BOOLEAN : SaveDump(ok)
    \/ \E ok \in BOOLEAN : SaveReplace(ok)
    \/ RestoreBegin
    \/ \E ok \in BOOLEAN : RestoreCopyOpen(ok)
    \/ \E ok \in BOOLEAN : RestoreCopyWrite(ok)
    \/ Crash

SpecStorage == InitStorage /\ [][NextStorage]_vars

\* ------------------------------------- two processes on the same vault file
\* The files fcntl.flock is called on: the vault file, which load opens, and
\* the temporary file of a process, which NamedTemporaryFile creates under a
\* name of its own.
VaultFile == <<"filepath">>
TempFileOf(p) == <<"temp_file", p>>

\* fcntl.flock(f.fileno(), mode) by process p on the open file target returns
\* when no other process holds a lock on that file that conflicts: shared
\* locks go together, an exclusive lock goes with none.
FlockGranted(p, target, mode) ==
    \A l \in flocks :
        (l.proc # p /\ l.target = target)
        => (mode = "LOCK_SH" /\ l.mode = "LOCK_SH")

ProcessFree(p) == processes[p].pc \in {"idle", "done"}

ProcessesUnchanged ==
    UNCHANGED <<master_key, secrets, auto_save, audit, rng, now, issued, audit_sink,
                construction, temp, storage_call>>

\* load(): a missing file gives {}; otherwise the vault file is opened.
LoadOpen(p) ==
    /\ ProcessFree(p)
    /\ processes' = [processes EXCEPT ![p] =
                       [op |-> "load",
                        pc |-> IF file.kind = "absent" THEN "done" ELSE "load_flock",
                        data |-> <<>>, temp |-> AbsentFile,
                        out |-> IF file.kind = "absent" THEN Some(storage_load(file))
                                ELSE None]]
    /\ UNCHANGED <<file, backup, flocks>>
    /\ ProcessesUnchanged

\* fcntl.flock(f.fileno(), fcntl.LOCK_SH) on the vault file
LoadFlock(p) ==
    /\ processes[p].pc = "load_flock"
    /\ FlockGranted(p, VaultFile, "LOCK_SH")
    /\ flocks' = flocks \cup {[proc |-> p, target |-> VaultFile, mode |-> "LOCK_SH"]}
    /\ processes' = [processes EXCEPT ![p].pc = "load_read"]
    /\ UNCHANGED <<file, backup>>
    /\ ProcessesUnchanged

\* yaml.safe_load(f) or {}
LoadRead(p) ==
    /\ processes[p].pc = "load_read"
    /\ processes' = [processes EXCEPT ![p].pc = "load_unlock",
                                      ![p].out = Some(storage_load(file))]
    /\ UNCHANGED <<file, backup, flocks>>
    /\ ProcessesUnchanged

\* fcntl.flock(f.fileno(), fcntl.LOCK_UN), and the file is closed
LoadUnlock(p) ==
    /\ processes[p].pc = "load_unlock"
    /\ flocks' = {l \in flocks : l.proc # p}
    /\ processes' = [processes EXCEPT ![p].pc = "done"]
    /\ UNCHANGED <<file, backup>>
    /\ ProcessesUnchanged

\* save(data): mkdir, and the backup of an existing vault file.
ProcessSaveBegin(p, data) ==
    /\ ProcessFree(p)
    /\ backup' = IF file.kind # "absent" THEN create_backup(file, backup, "ok")
                 ELSE backup
    /\ processes' = [processes EXCEPT ![p] =
                       [op |-> "save", pc |-> "create_temp", data |-> data,
                        temp |-> AbsentFile, out |-> None]]
    /\ UNCHANGED <<file, flocks>>
    /\ ProcessesUnchanged

\* tempfile.NamedTemporaryFile(mode='w', dir=..., delete=False, suffix='.tmp')
ProcessSaveCreateTemp(p) ==
    /\ processes[p].pc = "create_temp"
    /\ processes' = [processes EXCEPT
                       ![p].pc = "save_flock",
                       ![p].temp = PartialFile(yaml_safe_dump(processes[p].data))]
    /\ UNCHANGED <<file, backup, flocks>>
    /\ ProcessesUnchanged

\* fcntl.flock(f.fileno(), fcntl.LOCK_EX) on the temporary file
SaveFlock(p) ==
    /\ processes[p].pc = "save_flock"
    /\ FlockGranted(p, TempFileOf(p), "LOCK_EX")
    /\ flocks' = flocks \cup {[proc |-> p, target |-> TempFileOf(p), mode |-> "LOCK_EX"]}
    /\ processes' = [processes EXCEPT ![p].pc = "dump"]
    /\ UNCHANGED <<file, backup>>
    /\ ProcessesUnchanged

\* yaml.safe_dump(data, f, ...)
ProcessSaveDump(p) ==
    /\ processes[p].pc = "dump"
    /\ file' = save_dump(file, processes[p].temp, processes[p].data).file
    /\ processes' = [processes EXCEPT
                       ![p].pc = "save_unlock",
                       ![p].temp = save_dump(file, processes[p].temp,
                                             processes[p].data).temp]
    /\ UNCHANGED <<backup, flocks>>
    /\ ProcessesUnchanged

\* fcntl.flock(f.fileno(), fcntl.LOCK_UN), and the temporary file is closed
SaveUnlock(p) ==
    /\ processes[p].pc = "save_unlock"
    /\ flocks' = {l \in flocks : l.proc # p}
    /\ processes' = [processes EXCEPT ![p].pc = "replace"]
    /\ UNCHANGED <<file, backup>>
    /\ ProcessesUnchanged

\* temp_file.replace(self.filepath)
ProcessSaveReplace(p) ==
    /\ processes[p].pc = "replace"
    /\ file' = save_replace(file, processes[p].temp).file
    /\ processes' = [processes EXCEPT
                       ![p].pc = "done",
                       ![p].temp = save_replace(file, processes[p].temp).temp,
                       ![p].out = Some(Ok(None))]
    /\ UNCHANGED <<backup, flocks>>
    /\ ProcessesUnchanged

InitProcesses == InitStorage

NextProcesses ==
    \/ \E p \in Procs : LoadOpen(p)
    \/ \E p \in Procs : LoadFlock(p)
    \/ \E p \in Procs : LoadRead(p)
    \/ \E p \in Procs : LoadUnlock(p)
    \/ \E p \in Procs, data \in StorageDocs : ProcessSaveBegin(p, data)
    \/ \E p \in Procs : ProcessSaveCreateTemp(p)
    \/ \E p \in Procs : SaveFlock(p)
    \/ \E p \in Procs : ProcessSaveDump(p)
    \/ \E p \in Procs : SaveUnlock(p)
    \/ \E p \in Procs : ProcessSaveReplace(p)

SpecProcesses == InitProcesses /\ [][NextProcesses]_vars

\* ------------------------------------------------ AuditLogger with its file
\* The entries explored for AuditLogger.log.
LogArgs ==
    {[operation |-> "set", key |-> Some("k1"), success |-> TRUE, error |-> None,
      metadata |-> {<<"version", 1>>}],
     [operation |-> "get", key |-> Some("k2"), success |-> FALSE,
      error |-> Some("Secret not found"), metadata |-> EmptyDict],
     [operation |-> "rotate", key |-> None, success |-> TRUE, error |-> None,
      metadata |-> {<<"secret_count", 1>>}]}

\* The audit file an earlier logger left behind: one entry, logged at time 0.
PreviousAuditFile ==
    append_to_file(AbsentAuditFile,
                   audit_log(<<>>, "init", None, TRUE, None, EmptyDict, 0)[1], "ok")

\* AuditLogger.__init__: the entries of the file are loaded when a path is
\* configured and the file exists.
logger_init(sink) == IF sink.log_file THEN load_logs(sink.content) ELSE <<>>

InitAuditLogger ==
    /\ master_key = K1 /\ secrets = <<>> /\ auto_save = TRUE
    /\ file = AbsentFile /\ backup = AbsentFile /\ rng = 3 /\ now = 1 /\ issued = {}
    /\ temp = AbsentFile /\ storage_call = StorageIdle /\ construction = None
    /\ processes = NoProcesses /\ flocks = {}
    /\ audit_sink \in {[log_file |-> l, in_memory |-> m, content |-> c, lost |-> FALSE] :
                          l \in BOOLEAN, m \in BOOLEAN,
                          c \in {AbsentAuditFile, PreviousAuditFile}}
    /\ audit = logger_init(audit_sink)

LoggerUnchanged ==
    UNCHANGED <<master_key, secrets, auto_save, file, backup, rng, issued, temp,
                storage_call, construction,
                processes, flocks>>

\* AuditLogger.log
LoggerLog(a, outcome) ==
    LET logged == logger_log(audit, audit_sink, a.operation, a.key, a.success, a.error,
                             a.metadata, now, outcome)
    IN  /\ Len(audit) < MaxLog
        /\ audit' = logged.logs
        /\ audit_sink' = logged.sink
        /\ UNCHANGED now
        /\ LoggerUnchanged

\* A new AuditLogger is constructed with the same arguments.
LoggerReopen ==
    /\ audit' = logger_init(audit_sink)
    /\ UNCHANGED <<audit_sink, now>>
    /\ LoggerUnchanged

\* AuditLogger.get_logs returns a sorted copy and changes nothing.
GetLogs(key, operation, limit) ==
    /\ Len(get_logs_call(audit, key, operation, limit).ret) <= Len(audit)
    /\ audit' = get_logs_call(audit, key, operation, limit).memory_logs
    /\ UNCHANGED <<audit_sink, now>>
    /\ LoggerUnchanged

NextAuditLogger ==
    \/ \E a \in LogArgs, outcome \in AppendOutcomes : LoggerLog(a, outcome)
    \/ LoggerReopen
    \/ \E key \in {None, Some("k1")}, operation \in {None, Some("get")},
          limit \in {None, Some(1)} : GetLogs(key, operation, limit)
    \/ Tick

SpecAuditLogger == InitAuditLogger /\ [][NextAuditLogger]_vars

\* ------------------------------------------- MobileSecretsVault.__init__
\* Two more 32-byte keys, held by the explicit and by the default key file.
K3 == [id |-> 104, len |-> 32]
K4 == [id |-> 105, len |-> 32]

\* Vault files in which the entry of k2 is not well formed (no "versions", or a
\* version without "encrypted_value"), before or after the entry of k1.
MalformedKeyData == [current_version |-> 1]
MalformedVersionKeyData ==
    [versions |-> <<[version |-> 1, timestamp |-> 0, metadata |-> EmptyDict]>>,
     current_version |-> 1]
MalformedFirstFile ==
    yaml_safe_dump(<<[key |-> "k2", value |-> MalformedKeyData]>> \o to_dict(PreviousStore))
MalformedSecondFile ==
    yaml_safe_dump(to_dict(PreviousStore) \o <<[key |-> "k2", value |-> MalformedKeyData]>>)
MalformedVersionFile ==
    yaml_safe_dump(to_dict(PreviousStore)
                   \o <<[key |-> "k2", value |-> MalformedVersionKeyData]>>)

\* The vault files found at construction.
ConstructorFiles ==
    {AbsentFile, PreviousFile, CorruptFile, PartialFile(PreviousFile),
     MalformedFirstFile, MalformedSecondFile, MalformedVersionFile}

\* The key sources found at construction: the master_key argument, the value
\* of VAULT_MASTER_KEY, the master_key_file argument and the file at
\* ~/.vault/master.key.
ConstructorEnvs ==
    {[master_key |-> d, env |-> e, master_key_file |-> kf, default_key_file |-> df] :
        d \in {None, Some(K1)},
        e \in {None, Some(key_to_string(K2)), Some([raw |-> "not base64"])},
        kf \in {None, Some(NoFile), Some(KeyFile(K3)), Some(UnreadableFile)},
        df \in {NoFile, KeyFile(K4), UnreadableFile}}

\* The load of _load_secrets raises (and the exception is swallowed): the file
\* does not parse, or from_dict meets an item that is not well formed.
LoadFails(f) ==
    \/ ~storage_load(f).ok
    \/ \E i \in 1..Len(storage_load(f).value) :
          ~WellFormedKeyData(storage_load(f).value[i].value)

\* MobileSecretsVault.__init__ on the vault file f, with the audit file sink:
\* [master_key, secrets, audit, out]; nothing but out when it raises.
construct_call(c, f, sink, utcnow) ==
    LET key == load_master_key(c.master_key, c.env, c.master_key_file, c.default_key_file)
    IN  IF ~key.ok THEN [out |-> key]
        ELSE [master_key |-> key.value,
              secrets |-> load_secrets(f, utcnow),
              audit |-> audit_log(logger_init(sink), "init", None, TRUE, None,
                                  EmptyDict, utcnow),
              out |-> Ok(None)]

Construct(c, auto) ==
    LET call == construct_call(c, file, audit_sink, now)
    IN  /\ construction = None
        /\ construction' = Some(call.out)
        /\ IF call.out.ok
           THEN /\ master_key' = call.master_key
                /\ secrets' = call.secrets
                /\ audit' = call.audit
                /\ auto_save' = auto
           ELSE UNCHANGED <<master_key, secrets, audit, auto_save>>
        /\ UNCHANGED <<file, backup, rng, now, issued, temp, storage_call, audit_sink,
                       processes, flocks>>

Constructed == construction # None /\ construction[1].ok

\* No instance yet, on one of the vault files.
InitConstructor ==
    /\ construction = None
    /\ master_key = None /\ secrets = <<>> /\ audit = <<>> /\ auto_save = TRUE
    /\ file \in ConstructorFiles
    /\ backup = AbsentFile /\ rng = 3 /\ now = 1 /\ issued = {}
    /\ temp = AbsentFile /\ storage_call = StorageIdle /\ audit_sink = NoAuditFile
    /\ processes = NoProcesses /\ flocks = {}

\* The constructor, then get and list_keys on the instance.
NextConstructor ==
    \/ \E c \in ConstructorEnvs, auto \in BOOLEAN : Construct(c, auto)
    \/ \E key \in SecretNames, version \in GetArgs : Constructed /\ Get(key, version)
    \/ Constructed /\ ListKeys
    \/ Tick

SpecConstructor == InitConstructor /\ [][NextConstructor]_vars

\* C11: with auto_save on and no I/O failure, after any sequence of set, delete
\* and rotate, a vault constructed on the vault file with the live master key
\* lists the same keys and version numbers, and get gives the same outcome for
\* every key and version (and for the latest version).
C11_ReopenedVaultReadsTheSame ==
    LET reopened == load_secrets(file, now)
    IN  /\ get_all_keys(reopened) = get_all_keys(secrets)
        /\ \A key \in SecretNames :
              /\ VersionNumbers(reopened, key) = VersionNumbers(secrets, key)
              /\ list_versions(reopened, key) = list_versions(secrets, key)
              /\ \A version \in GetArgs :
                    get_outcome(reopened, master_key, key, version)
                      = get_outcome(secrets, master_key, key, version)

\* C11 witness: after a set and a rotation, the reopened vault reads three
\* versions of k1 under the rotated key, the one just set included.
C11_Witness ==
    /\ LastAudit.operation = "rotate" /\ LastAudit.success
    /\ master_key # K1
    /\ VersionNumbers(load_secrets(file, now), "k1") = {1, 2, 3}
    /\ get_outcome(load_secrets(file, now), master_key, "k1", Some(1)) = Ok("a")
    /\ get_outcome(load_secrets(file, now), master_key, "k1", Some(3)).ok

\* C12: a set, delete or rotate that succeeds writes the vault file if and
\* only if auto_save is on; with auto_save off, the vault file and its backup
\* change on an explicit save() only.
C12_MutatorsWriteIffAutoSave ==
    [][/\ \A key \in SecretNames, a \in SetArgs, io \in IoOutcomes :
             (Set(key, a.value, a.metadata, io)
              /\ set_call(key, a.value, a.metadata, io).out.ok)
             => IF auto_save THEN file' = yaml_safe_dump(to_dict(secrets'))
                ELSE file' = file /\ backup' = backup
       /\ \A key \in SecretNames, io \in IoOutcomes :
             (Delete(key, io) /\ delete_call(key, io).out = Ok(TRUE))
             => IF auto_save THEN file' = yaml_safe_dump(to_dict(secrets'))
                ELSE file' = file /\ backup' = backup
       /\ \A new_key \in RotateArgs, io \in SaveOutcomes :
             (Rotate(new_key, io) /\ rotate_call(new_key, io).out.ok)
             => IF auto_save THEN file' = yaml_safe_dump(to_dict(secrets'))
                ELSE file' = file /\ backup' = backup
       /\ (~auto_save /\ ~(\E io \in SaveOutcomes : Save(io)))
             => file' = file /\ backup' = backup]_vars

\* C15: after a rotate that succeeds (every version decrypted under the old
\* key and was re-encrypted under a new 32-byte key), the backup holds the
\* pre-rotation document, and every version present just before the rotation
\* reads from the backup under the old key.
C15_BackupHoldsPreRotationDocument ==
    [][\A new_key \in RotateArgs, io \in SaveOutcomes :
          (/\ Rotate(new_key, io) /\ rotate_call(new_key, io).out.ok
           /\ AllDecrypt(secrets, master_key)
           /\ master_key'.len = KEY_SIZE)
          => /\ backup' = yaml_safe_dump(to_dict(secrets))
             /\ \A key \in SecretNames : \A n \in VersionNumbers(secrets, key) :
                   get_outcome(load_secrets(backup', now), master_key, key, Some(n)).ok]_vars

\* C15 amended: after a rotate that succeeds and whose copy to the backup did
\* not fail, on an existing vault file, the backup holds what the vault file
\* held just before the rotation; when that was the in-memory document and
\* every version decrypted under the old key, the backup holds the pre-rotation
\* document and every version present before the rotation reads from the
\* backup under the old key, with the plaintext it had.
C15_BackupHoldsPreRotationFile ==
    [][\A new_key \in RotateArgs :
          (/\ audit' # audit /\ file.kind # "absent"
           /\ Rotate(new_key, "ok") /\ rotate_call(new_key, "ok").out.ok)
          => /\ backup' = file
             /\ (file = yaml_safe_dump(to_dict(secrets)) /\ AllDecrypt(secrets, master_key))
                => LET restored == load_secrets(backup', now)
                   IN  /\ backup' = yaml_safe_dump(to_dict(secrets))
                       /\ \A key \in SecretNames : \A n \in VersionNumbers(secrets, key) :
                             /\ get_outcome(restored, master_key, key, Some(n)).ok
                             /\ get_outcome(restored, master_key, key, Some(n))
                                  = get_outcome(secrets, master_key, key, Some(n))]_vars

\* C15 witness: a rotation has replaced the live key K1, and the backup holds
\* three versions of k1 that decrypt under K1 while the store decrypts under
\* the new key.
C15_Witness ==
    /\ LastAudit.operation = "rotate" /\ LastAudit.success
    /\ master_key # K1 /\ master_key.len = KEY_SIZE
    /\ Len(VersionsOf(load_secrets(backup, now), "k1")) = 3
    /\ AllDecrypt(load_secrets(backup, now), K1)
    /\ AllDecrypt(secrets, master_key)

\* C13: during a save, and after a save that was interrupted (it crashed or
\* raised) before the rename, the vault file holds what it held when the save
\* began; after the rename it holds the complete new document.
C13_SaveLeavesOldOrNewFile ==
    storage_call.op = "save"
    => IF storage_call.pc = "done" /\ storage_call.out = Some(Ok(None))
       THEN file = yaml_safe_dump(storage_call.data)
       ELSE file = storage_call.presave

\* C13 witness: the process died between the write of the temporary file and
\* the rename, and the vault file holds the earlier document.
C13_Witness ==
    /\ storage_call.op = "save" /\ storage_call.pc = "crashed"
    /\ temp = yaml_safe_dump(storage_call.data)
    /\ file = PreviousFile
    /\ file # yaml_safe_dump(storage_call.data)

\* C14: after every save performed on an existing vault file, the backup holds
\* what the vault file held immediately before that save.
C14_BackupIsFileBeforeSave ==
    (storage_call.op = "save" /\ storage_call.pc = "done"
     /\ storage_call.presave.kind # "absent")
    => backup = storage_call.presave

\* C14 amended: after every save performed on an existing vault file whose
\* copy to the backup did not fail, the backup holds what the vault file held
\* immediately before that save, whatever the backup held before; when the
\* copy failed, the backup is as it was or holds a part of the copy.
C14_BackupIsFileBeforeSaveWhenCopied ==
    (storage_call.op = "save" /\ storage_call.pc = "done"
     /\ storage_call.presave.kind # "absent")
    => IF storage_call.backup_copied
       THEN backup = storage_call.presave
       ELSE backup \in {storage_call.prebackup, PartialFile(storage_call.presave)}

\* C14 witness: a save that returned has replaced an earlier backup by the
\* document the vault file held before it.
C14_Witness ==
    /\ storage_call.op = "save" /\ storage_call.pc = "done"
    /\ storage_call.out = Some(Ok(None))
    /\ storage_call.prebackup.kind = "yaml"
    /\ backup.kind = "yaml" /\ backup # storage_call.prebackup
    /\ backup = storage_call.presave
    /\ file # backup

\* C16: restore_from_backup returns False and changes nothing when no backup
\* exists; when it returns True the vault file equals the backup, which is
\* what the vault file held before the last save.
C16_RestoreGivesFileBeforeLastSave ==
    (storage_call.op = "restore" /\ storage_call.pc = "done")
    => /\ backup = storage_call.prebackup
       /\ storage_call.prebackup.kind = "absent"
          => storage_call.out = Some(Ok(FALSE)) /\ file = storage_call.presave
       /\ storage_call.out = Some(Ok(FALSE)) => storage_call.prebackup.kind = "absent"
       /\ storage_call.out = Some(Ok(TRUE))
          => /\ file = backup
             /\ storage_call.last_presave # None => file = storage_call.last_presave[1]

\* C16 amended: restore_from_backup returns False and changes nothing when no
\* backup exists; when it returns True the vault file equals the backup, which
\* is what the vault file held before the last save when the copy to the
\* backup of that save did not fail.
C16_RestoreGivesBackup ==
    (storage_call.op = "restore" /\ storage_call.pc = "done")
    => /\ backup = storage_call.prebackup
       /\ storage_call.prebackup.kind = "absent"
          => storage_call.out = Some(Ok(FALSE)) /\ file = storage_call.presave
       /\ storage_call.out = Some(Ok(FALSE)) => storage_call.prebackup.kind = "absent"
       /\ storage_call.out = Some(Ok(TRUE))
          => /\ file = backup
             /\ (storage_call.last_presave # None /\ storage_call.backup_copied)
                => file = storage_call.last_presave[1]

\* C16 witness: after two saves, restore_from_backup returned True and load
\* yields the document of the first save.
C16_Witness ==
    /\ storage_call.op = "restore" /\ storage_call.pc = "done"
    /\ storage_call.out = Some(Ok(TRUE))
    /\ storage_call.backup_copied
    /\ storage_call.presave.kind = "yaml" /\ storage_call.presave # file
    /\ storage_load(file) = Ok(to_dict(PreviousStore))
    /\ storage_call.last_presave = Some(file)

\* C17: at every point of a restore_from_backup, a crash or a failure
\* included, the vault file holds either all of what it held before the
\* restore or all of the backup.
C17_RestoreIsAtomic ==
    storage_call.op = "restore"
    => file \in {storage_call.presave, storage_call.prebackup}

\* The call appended exactly one entry with this operation, key and flag.
AppendedOne(operation, key, success) ==
    /\ Len(audit') = Len(audit) + 1
    /\ SubSeq(audit', 1, Len(audit)) = audit
    /\ audit'[Len(audit')].operation = operation
    /\ audit'[Len(audit')].key = key
    /\ audit'[Len(audit')].success = success

\* C18: every call of set, get, delete, rotate or list_versions, whether it
\* returns or raises, appends exactly one audit entry, with the operation and
\* the key of the call and with success true iff the call returned (for
\* delete: returned True).
C18_OneAuditEntryPerCall ==
    [][/\ \A key \in SecretNames, a \in SetArgs, io \in IoOutcomes :
             Set(key, a.value, a.metadata, io)
             => AppendedOne("set", Some(key), set_call(key, a.value, a.metadata, io).out.ok)
       /\ \A key \in SecretNames, version \in GetArgs :
             Get(key, version)
             => AppendedOne("get", Some(key), get_call(key, version).out.ok)
       /\ \A key \in SecretNames, io \in IoOutcomes :
             Delete(key, io)
             => AppendedOne("delete", Some(key), delete_call(key, io).out = Ok(TRUE))
       /\ \A new_key \in RotateArgs, io \in SaveOutcomes :
             Rotate(new_key, io)
             => AppendedOne("rotate", None, rotate_call(new_key, io).out.ok)
       /\ \A key \in SecretNames :
             ListVersions(key) => AppendedOne("list_versions", Some(key), TRUE)]_vars

\* C18 witness: a set that returned and then a get that raised have one entry
\* each after the entry of the constructor.
C18_Witness ==
    /\ Len(audit) = 3
    /\ audit[1].operation = "init"
    /\ audit[2].operation = "set" /\ audit[2].key = Some("k1") /\ audit[2].success
    /\ audit[3].operation = "get" /\ audit[3].key = Some("k2") /\ ~audit[3].success

\* The sequence in the opposite order.
Reverse(seq) == [i \in 1..Len(seq) |-> seq[Len(seq) + 1 - i]]

\* C19: every log call leaves the entries recorded before it unchanged and in
\* their order and adds one entry after them, and when an audit file is
\* configured a newly constructed logger loads exactly the entries logged so
\* far, in the order they were logged.
C19_AuditLogAppendOnlyAndReloaded ==
    [][/\ \A a \in LogArgs, outcome \in AppendOutcomes :
             LoggerLog(a, outcome)
             => /\ Len(audit') = Len(audit) + 1
                /\ SubSeq(audit', 1, Len(audit)) = audit
       /\ audit_sink'.log_file => logger_init(audit_sink') = audit']_vars

\* C19 amended: every log call leaves the entries recorded before it unchanged
\* and in their order and adds one entry after them, and when an audit file is
\* configured for a logger that is not in_memory and no write to the file has
\* failed, a newly constructed logger loads exactly the entries logged so far,
\* in the order they were logged.
C19_AuditLogAppendOnlyAndReloadedIfWritten ==
    [][/\ \A a \in LogArgs, outcome \in AppendOutcomes :
             LoggerLog(a, outcome)
             => /\ Len(audit') = Len(audit) + 1
                /\ SubSeq(audit', 1, Len(audit)) = audit
       /\ (audit_sink'.log_file /\ ~audit_sink'.in_memory /\ ~audit_sink'.lost)
             => logger_init(audit_sink') = audit']_vars

\* C19 witness: a logger constructed on the file of an earlier one has loaded
\* its entry and logged two more, and the file holds the three in order.
C19_Witness ==
    /\ audit_sink.log_file /\ ~audit_sink.in_memory /\ ~audit_sink.lost
    /\ Len(audit) = 3
    /\ audit[1].operation = "init" /\ audit[1].timestamp = 0
    /\ audit[2].operation = "set" /\ audit[3].operation = "get"
    /\ load_logs(audit_sink.content) = audit

\* C20: get_logs returns the matching entries in the opposite of the order
\* they were logged in, and with limit = m the m last logged of them.
C20_GetLogsMostRecentFirst ==
    /\ get_logs(audit, None, None, None) = Reverse(audit)
    /\ \A key \in {Some("k1"), Some("k2")} :
          LET matches(e) == e.key = key
          IN  get_logs(audit, key, None, None) = Reverse(SelectSeq(audit, matches))
    /\ \A m \in 0..Len(audit) :
          get_logs(audit, None, None, Some(m)) = SubSeq(Reverse(audit), 1, m)

\* The number of times an entry occurs in a sequence, and the entries of a
\* sequence.
Count(seq, e) == Cardinality({i \in 1..Len(seq) : seq[i] = e})
Range(seq) == {seq[i] : i \in 1..Len(seq)}

\* The filters explored for get_logs.
KeyFilters == {None, Some("k1"), Some("k2")}
OperationFilters == {None, Some("set"), Some("get"), Some("rotate")}

\* C21: get_logs(key, operation) returns each logged entry that matches the
\* filters given (key equal, operation equal; a filter not given matches all)
\* as many times as it was logged and no other entry, and the stored log is the
\* same after the call.
C21_GetLogsReturnsExactlyTheMatches ==
    \A key \in KeyFilters, operation \in OperationFilters :
        LET call == get_logs_call(audit, key, operation, None)
            matches(e) == /\ key # None => e.key = key
                          /\ operation # None => e.operation = operation[1]
        IN  /\ call.memory_logs = audit
            /\ \A e \in Range(audit) \cup Range(call.ret) :
                  Count(call.ret, e) = IF matches(e) THEN Count(audit, e) ELSE 0

\* C21 witness: the log holds the same entry twice and entries of another key
\* and of another operation; get_logs(key="k1", operation="set") returns the
\* two and get_logs(key="k1", operation="get") returns nothing.
C21_Witness ==
    /\ Len(audit) = 3
    /\ \E i, j \in 1..3 : i # j /\ audit[i] = audit[j] /\ audit[i].key = Some("k1")
                            /\ audit[i].operation = "set"
    /\ \E i \in 1..3 : audit[i].key # Some("k1")
    /\ Len(get_logs(audit, Some("k1"), Some("set"), None)) = 2
    /\ get_logs(audit, Some("k1"), Some("get"), None) = <<>>

\* C22: get(k, version) raises SecretNotFoundError when k is absent or has no
\* version with that number left (after delete_version or delete); the store,
\* the live key and the vault file stay as they are and the log gains one
\* failed get entry for k.
C22_GetOfMissingVersionIsNotFound ==
    [][\A key \in SecretNames, version \in GetArgs :
          (/\ audit' # audit
           /\ Get(key, version)
           /\ \/ ~HasKey(secrets, key)
              \/ version # None /\ version[1] \notin VersionNumbers(secrets, key))
          => /\ get_call(key, version).out
                  = Err("SecretNotFoundError", "Secret not found")
             /\ secrets' = secrets /\ master_key' = master_key /\ file' = file
             /\ AppendedOne("get", Some(key), FALSE)]_vars

\* C22 witness: a get has just failed on k1, of which versions 1 and 3 are
\* left after delete_version removed version 2.
C22_Witness ==
    /\ LastAudit.operation = "get" /\ ~LastAudit.success
    /\ LastAudit.key = Some("k1")
    /\ LastAudit.error = Some("Secret not found")
    /\ VersionNumbers(secrets, "k1") = {1, 3}

\* C23: a get of a version whose tag does not verify under the 32-byte live
\* key raises AuthenticationError, not the generic VaultError and not
\* SecretNotFoundError.
C23_GetPassesAuthenticationErrorThrough ==
    [][\A key \in SecretNames, version \in GetArgs :
          (/\ audit' # audit
           /\ Get(key, version)
           /\ master_key.len = KEY_SIZE
           /\ get_version(secrets, key, version) # None
           /\ ~decrypt(get_version(secrets, key, version)[1].encrypted_value,
                       master_key).ok)
          => get_call(key, version).out.type = "AuthenticationError"]_vars

\* C24: a delete(k) that returns, returns whether k was present, and it returns
\* whenever its save does not fail; after the call k is not among list_keys,
\* every get(k, .) raises SecretNotFoundError and another delete(k) finds
\* nothing to delete, and the other keys, their order, versions and
\* current_version are as before.
C24_DeleteRemovesTheKeyOnly ==
    [][\A key \in SecretNames, io \in IoOutcomes :
          (audit' # audit /\ Delete(key, io))
          => LET out == delete_call(key, io).out
                 others(e) == e.key # key
             IN  /\ (io = "ok" \/ ~auto_save \/ ~HasKey(secrets, key)) => out.ok
                 /\ out.ok => out.value = HasKey(secrets, key)
                 /\ \A i \in 1..Len(get_all_keys(secrets')) :
                       get_all_keys(secrets')[i] # key
                 /\ \A version \in GetArgs :
                       get_outcome(secrets', master_key', key, version)
                         = Err("SecretNotFoundError", "Secret not found")
                 /\ delete_key(secrets', key) = [secrets |-> secrets', ret |-> FALSE]
                 /\ secrets' = SelectSeq(secrets, others)]_vars

\* C24 witness: delete(k1) has just returned true on a store that held k1 and
\* k2; k2 is left with its version and k1 is gone.
C24_Witness ==
    /\ LastAudit.operation = "delete" /\ LastAudit.success
    /\ LastAudit.key = Some("k1")
    /\ get_all_keys(secrets) = <<"k2">>
    /\ Len(VersionsOf(secrets, "k2")) = 1
    /\ \E h \in issued : h.key = "k1"

\* The store after a call has every key and every version number of the store
\* before it.
KeepsKeysAndVersions(before, after) ==
    \A key \in SecretNames :
        HasKey(before, key)
        => /\ HasKey(after, key)
           /\ VersionNumbers(before, key) \subseteq VersionNumbers(after, key)

\* C25: no call of set, get, list_versions, list_keys, rotate or save removes a
\* key or a version, whether it returns or raises, and set(k, .) leaves the
\* entries of the other keys and the earlier versions of k (number, blob,
\* timestamp, metadata) as they were.
C25_OnlyDeleteRemoves ==
    /\ \A key \in SecretNames, a \in SetArgs, io \in IoOutcomes :
          LET after == set_call(key, a.value, a.metadata, io).secrets
              earlier == VersionsOf(secrets, key)
          IN  /\ KeepsKeysAndVersions(secrets, after)
              /\ \A i \in 1..Len(secrets) : secrets[i].key # key => after[i] = secrets[i]
              /\ SubSeq(VersionsOf(after, key), 1, Len(earlier)) = earlier
    /\ \A key \in SecretNames, version \in GetArgs :
          KeepsKeysAndVersions(secrets, get_call(key, version).secrets)
    /\ \A key \in SecretNames :
          KeepsKeysAndVersions(secrets, list_versions_call(key).secrets)
    /\ KeepsKeysAndVersions(secrets, list_keys_call.secrets)
    /\ \A new_key \in RotateArgs, io \in SaveOutcomes :
          KeepsKeysAndVersions(secrets, rotate_call(new_key, io).secrets)
    /\ \A io \in SaveOutcomes :
          KeepsKeysAndVersions(secrets, save_call(io).secrets)

\* C25 witness: set(k1, .) has just added version 3 next to the two versions
\* loaded from the file, which are as they were, and k2 is as it was set.
C25_Witness ==
    /\ LastAudit.operation = "set" /\ LastAudit.key = Some("k1")
    /\ Len(VersionsOf(secrets, "k1")) = 3
    /\ SubSeq(VersionsOf(secrets, "k1"), 1, 2) = VersionsOf(PreviousStore, "k1")
    /\ Len(VersionsOf(secrets, "k2")) = 1
    /\ get_all_keys(secrets) = <<"k1", "k2">>

\* C26: a construction on a vault file whose load fails (it does not parse, or
\* the entry of some key is not well formed) returns an instance with an
\* empty store: list_keys is empty.
C26_FailedLoadStartsEmpty ==
    [][\A c \in ConstructorEnvs, auto \in BOOLEAN :
          (/\ Construct(c, auto)
           /\ LoadFails(file)
           /\ load_master_key(c.master_key, c.env, c.master_key_file,
                              c.default_key_file).ok)
          => /\ construction' = Some(Ok(None))
             /\ secrets' = <<>>
             /\ get_all_keys(secrets') = <<>>]_vars

\* C27: a construction on a vault file whose load fails leaves another audit
\* log than the same construction on a missing vault file: the log holds an
\* entry for the failed load.
C27_FailedLoadIsLogged ==
    [][\A c \in ConstructorEnvs, auto \in BOOLEAN :
          (/\ Construct(c, auto)
           /\ LoadFails(file)
           /\ load_master_key(c.master_key, c.env, c.master_key_file,
                              c.default_key_file).ok)
          => audit' # construct_call(c, AbsentFile, audit_sink, now).audit]_vars

\* C28: the constructor takes the master key from the first source there is,
\* in the order: the master_key argument; VAULT_MASTER_KEY when it decodes; the
\* master_key_file when given and existing, a read error on it raising
\* MasterKeyNotFoundError; the default key file when it exists and can be
\* read; with no source it raises MasterKeyNotFoundError.
C28_MasterKeyFromFirstSource ==
    [][\A c \in ConstructorEnvs, auto \in BOOLEAN :
          Construct(c, auto)
          => LET result == construction'[1]
                 taken(key_bytes) == result.ok /\ master_key' = key_bytes
                 fails == ~result.ok /\ result.type = "MasterKeyNotFoundError"
                 direct == c.master_key # None
                 env == c.env # None /\ b64valid(c.env[1])
                 explicit == c.master_key_file # None /\ c.master_key_file[1].exists
                 default == c.default_key_file.exists /\ c.default_key_file.readable
             IN  /\ direct => taken(c.master_key[1])
                 /\ (~direct /\ env) => taken(b64decode(c.env[1]))
                 /\ (~direct /\ ~env /\ explicit)
                       => IF c.master_key_file[1].readable
                          THEN taken(c.master_key_file[1].content)
                          ELSE fails
                 /\ (~direct /\ ~env /\ ~explicit /\ default)
                       => taken(c.default_key_file.content)
                 /\ (~direct /\ ~env /\ ~explicit /\ ~default) => fails]_vars

\* C28 witness: the instance holds the key of the default key file, which is
\* taken only when no argument, variable or explicit key file gave one.
C28_Witness ==
    /\ construction = Some(Ok(None))
    /\ master_key = K4
    /\ Len(audit) = 1 /\ audit[1].operation = "init"

\* C29: from_dict(to_dict(S)) is S for every store S that set, delete, rotate
\* and delete_version reach, whenever the import runs: the keys in their
\* order, the versions in their order with blob, timestamp and metadata, and
\* current_version as it was, also above the highest version left.
C29_FromDictOfToDictIsTheStore ==
    \A utcnow \in 0..(MaxClock + 1) : from_dict(to_dict(secrets), utcnow) = secrets

\* C29 witness: a store of two keys in which k1 lost its highest version, so
\* that current_version is 3 with versions 1 and 2 left, one key carrying
\* metadata.
C29_Witness ==
    /\ get_all_keys(secrets) = <<"k1", "k2">>
    /\ VersionNumbers(secrets, "k1") = {1, 2}
    /\ CurrentVersion(secrets, "k1") = 3
    /\ VersionsOf(secrets, "k2")[1].metadata # EmptyDict
    /\ CurrentVersion(from_dict(to_dict(secrets), now), "k1") = 3

\* The plaintexts explored for the crypto engine, the empty one included.
Plaintexts == {"", "a", "b"}

\* C30: for every plaintext (the empty one included), every 32-byte key (a
\* supplied one, a generated one, the live one) and every nonce drawn,
\* decrypt(encrypt(plaintext, K), K) returns the plaintext.
C30_DecryptOfEncryptIsThePlaintext ==
    \A plaintext \in Plaintexts, key \in {K1, K2, generate_key(rng), master_key} :
        key.len = KEY_SIZE
        => /\ encrypt(plaintext, key, rng).ok
           /\ decrypt(encrypt(plaintext, key, rng).value, key) = Ok(plaintext)

\* C30 witness: the live key is a generated 32-byte key, draws have been taken
\* from the random stream, and the empty plaintext comes back under that key.
C30_Witness ==
    /\ master_key.len = KEY_SIZE /\ master_key \notin {K1, K2}
    /\ rng > 4
    /\ decrypt(encrypt("", master_key, rng).value, master_key) = Ok("")
    /\ \E i \in 1..Len(secrets) : \E j \in 1..Len(secrets[i].versions) :
          decrypt(secrets[i].versions[j].encrypted_value, master_key).ok

\* What decrypt raises when the tag does not verify: the InvalidTag of
\* AESGCM.decrypt, which decrypt lets through.
AuthenticationError == Err("InvalidTag", "")

\* A stored blob after a modification outside the program: a byte of the
\* ciphertext bytes changed (the text is still base64), or a character of the
\* "ciphertext" text replaced by one that is not of the base64 alphabet.
TamperedBytes(blob) ==
    [blob EXCEPT !.ciphertext = b64encode([b64decode(@) EXCEPT !.tag_ok = FALSE])]
CorruptedText(blob) == [blob EXCEPT !.ciphertext = [raw |-> "not base64"]]

\* The 32-byte keys tried on the stored blobs.
DecryptKeys == {key \in {K1, K2, master_key, generate_key(rng)} : key.len = KEY_SIZE}

\* C31: decrypt of a stored blob under a 32-byte key other than the one that
\* encrypted it, and decrypt of a stored blob whose ciphertext was modified
\* (bytes or text), fail with the authentication error, the same in each case.
C31_WrongKeyAndTamperingFailAlike ==
    \A i \in 1..Len(secrets) : \A j \in 1..Len(secrets[i].versions) :
        \A key \in DecryptKeys :
            LET blob == secrets[i].versions[j].encrypted_value
            IN  /\ b64decode(blob.ciphertext).aead_key # key
                   => decrypt(blob, key) = AuthenticationError
                /\ decrypt(TamperedBytes(blob), key) = AuthenticationError
                /\ decrypt(CorruptedText(blob), key) = AuthenticationError

\* The places of the stored blobs, and the nonce of a blob.
BlobPlaces(secs) ==
    UNION {{<<i, j>> : j \in 1..Len(secs[i].versions)} : i \in 1..Len(secs)}
BlobAt(secs, p) == secs[p[1]].versions[p[2]].encrypted_value
NonceOf(blob) == b64decode(blob.nonce)

\* C32: the random stream never repeating, no two blobs that are or ever were
\* stored share a nonce: the stored blobs have pairwise different nonces, all
\* of them drawn already, and every call that stores blobs gives each of them
\* a nonce drawn during the call.
C32_NoNonceStoredTwice ==
    [][/\ \A p, q \in BlobPlaces(secrets') :
             p # q => NonceOf(BlobAt(secrets', p)) # NonceOf(BlobAt(secrets', q))
       /\ \A p \in BlobPlaces(secrets') :
             LET blob == BlobAt(secrets', p)
             IN  /\ NonceOf(blob) < rng'
                 /\ (\A q \in BlobPlaces(secrets) : BlobAt(secrets, q) # blob)
                      => NonceOf(blob) >= rng]_vars

\* C32 witness: a rotation to a generated key re-encrypted the two loaded
\* versions and a set then added a third; the three blobs are under the live
\* key, with three nonces.
C32_Witness ==
    /\ LastAudit.operation = "set" /\ LastAudit.success
    /\ master_key \notin {K1, K2} /\ master_key.len = KEY_SIZE
    /\ Len(VersionsOf(secrets, "k1")) = 3
    /\ AllDecrypt(secrets, master_key)
    /\ Cardinality({NonceOf(BlobAt(secrets, p)) : p \in BlobPlaces(secrets)}) = 3

\* C33: on an instance constructed with a 32-byte key on an absent vault file,
\* after any calls of set, get, delete, rotate (with any new_key) and save,
\* every stored version decrypts under the live master key.
C33_StoreDecryptsUnderLiveKey == AllDecrypt(secrets, master_key)

\* C34: a set that raises leaves the store as it was before the call (the
\* versions and current_version of its key included), so that no later save
\* writes a version whose set raised.
C34_FailedSetLeavesTheStore ==
    [][\A key \in SecretNames, a \in SetArgs, io \in IoOutcomes :
          (/\ audit' # audit
           /\ Set(key, a.value, a.metadata, io)
           /\ ~set_call(key, a.value, a.metadata, io).out.ok)
          => /\ secrets' = secrets
             /\ \A io2 \in SaveOutcomes :
                   LET saved == storage_save(file', backup', to_dict(secrets'), io2)
                   IN  saved.out.ok => saved.file = yaml_safe_dump(to_dict(secrets))]_vars

\* C35: a rotate that raises, on a store that decrypts under the 32-byte live
\* key and with a new key of 32 bytes, leaves the live key, every blob and the
\* vault file as they were before the call.
C35_FailedRotateLeavesKeyAndStore ==
    [][\A new_key \in RotateArgs, io \in SaveOutcomes :
          (/\ audit' # audit
           /\ Rotate(new_key, io)
           /\ master_key.len = KEY_SIZE
           /\ AllDecrypt(secrets, master_key)
           /\ rotate_call(new_key, io).master_key.len = KEY_SIZE
           /\ ~rotate_call(new_key, io).out.ok)
          => /\ master_key' = master_key
             /\ secrets' = secrets
             /\ file' = file
             /\ AllDecrypt(secrets', master_key)]_vars

\* C36: a StorageBackend.save that fails, at the creation of the temporary
\* file, at the serialization or at the rename, raises IOError; at the step
\* that raises, the vault file holds what it held when the call began, and
\* the call leaves no temporary file of its own: none exists in the
\* directory, or the call failed before it created one.
C36_FailedSaveLeavesFileAndNoTemp ==
    [][(/\ storage_call.op = "save" /\ ~StorageFree
        /\ storage_call'.pc = "done"
        /\ ~storage_call'.out[1].ok)
       => /\ storage_call'.out
               = Some(Err("IOError", "Failed to save secrets file"))
          /\ file' = storage_call.presave
          /\ \/ temp' = AbsentFile
             \/ storage_call.pc = "create_temp" /\ temp' = temp]_vars

\* C36 witness: a save of another document on the file written earlier has
\* raised after its backup was copied; the file is the earlier one.
C36_Witness ==
    /\ storage_call.op = "save" /\ storage_call.pc = "done"
    /\ storage_call.out = Some(Err("IOError", "Failed to save secrets file"))
    /\ storage_call.backup_copied
    /\ file = PreviousFile /\ backup = PreviousFile /\ temp = AbsentFile
    /\ yaml_safe_dump(storage_call.data) # file

\* A process is in the write phase of a save while it holds the lock the save
\* takes; it is reading in a load while it holds the lock the load takes.
InWritePhase(p) ==
    processes[p].op = "save" /\ processes[p].pc \in {"dump", "save_unlock"}
InLoad(p) ==
    processes[p].op = "load" /\ processes[p].pc \in {"load_read", "load_unlock"}

\* C37: every exclusive lock a save holds, and every shared lock a load
\* holds, is on the vault file, and while one process is in the write phase
\* of a save no other process is in the write phase of a save or reading in
\* a load of the same vault.
C37_SaveLockExcludesLoadsAndSaves ==
    /\ \A l \in flocks : l.target = VaultFile
    /\ \A p \in Procs, q \in Procs :
          (p # q /\ InWritePhase(p)) => (~InWritePhase(q) /\ ~InLoad(q))

\* The ValueError of a key whose length is not 32, and the ValueErrors of a
\* blob without "ciphertext" or "nonce" or with a text that is not base64.
KeyLengthError == Err("ValueError", "Key must be 32 bytes")
MalformedBlobErrors ==
    {Err("ValueError", "Encrypted data must contain 'ciphertext' and 'nonce'"),
     Err("ValueError", "Failed to decode encrypted data")}

\* The keys given to encrypt and decrypt: of 32 bytes and of 16, supplied,
\* generated and live.
CryptoKeys == {K1, K2, KShort, master_key, generate_key(rng)}

\* The blobs given to decrypt, made from a stored blob: the blob itself, the
\* blob modified in its bytes or its text, without one of its fields or
\* without both, and blobs with two of these defects.
Without(blob, field) == [f \in DOMAIN blob \ {field} |-> blob[f]]
CorruptedNonce(blob) == [blob EXCEPT !.nonce = [raw |-> "not base64"]]
BlobInputs(blob) ==
    {blob, TamperedBytes(blob), CorruptedText(blob), CorruptedNonce(blob),
     Without(blob, "ciphertext"), Without(blob, "nonce"),
     Without(Without(blob, "ciphertext"), "nonce"),
     CorruptedNonce(TamperedBytes(blob)),
     Without(CorruptedText(blob), "nonce"),
     Without(TamperedBytes(blob), "nonce")}
MalformedBlob(blob) ==
    \/ "ciphertext" \notin DOMAIN blob
    \/ "nonce" \notin DOMAIN blob
    \/ "raw" \in DOMAIN blob.ciphertext
    \/ "raw" \in DOMAIN blob.nonce

LimitArgs == {None, Some(1), Some(100)}

\* An instance under the calls that read (get, list_versions, list_keys,
\* get_audit_log) and, to give them stores and live keys to read, under set and
\* rotate with saves that do not fail.
NextRead ==
    \/ \E key \in SecretNames, a \in SetArgs : Set(key, a.value, a.metadata, "ok")
    \/ \E new_key \in RotateArgs : Rotate(new_key, "ok")
    \/ \E key \in SecretNames, version \in GetArgs : Get(key, version)
    \/ \E key \in SecretNames : ListVersions(key)
    \/ ListKeys
    \/ \E key \in KeyFilters, limit \in LimitArgs : GetAuditLog(key, limit)

SpecRead == Init /\ [][NextRead]_vars

\* C39: in every state, each of get, list_versions, list_keys and
\* get_audit_log, with every argument and whether it returns or raises,
\* leaves the store (keys, versions, blobs, current_version), the live master
\* key, the vault file and its backup as they are.
C39_ReadOnlyCallsLeaveTheVault ==
    LET Leaves(call) == /\ call.secrets = secrets
                        /\ call.master_key = master_key
                        /\ call.file = file
                        /\ call.backup = backup
    IN  /\ \A key \in SecretNames, version \in GetArgs : Leaves(get_call(key, version))
        /\ \A key \in SecretNames : Leaves(list_versions_call(key))
        /\ Leaves(list_keys_call)
        /\ \A key \in KeyFilters, limit \in LimitArgs :
              Leaves(get_audit_log_call(key, limit))

\* C39 witness: a get has just raised (its failure is the last audit entry)
\* on a store that holds versions, with a vault file and a backup on disk, and
\* a get of a version that is not there raises as well.
C39_Witness ==
    /\ audit # <<>>
    /\ audit[Len(audit)].operation = "get" /\ ~audit[Len(audit)].success
    /\ secrets # <<>> /\ file # AbsentFile /\ backup # AbsentFile
    /\ \E key \in SecretNames :
          /\ get_call(key, None).out.ok
          /\ ~get_call(key, Some(3)).out.ok

====
